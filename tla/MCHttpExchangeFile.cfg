\* What the options of the ParseFilePipe say of a missing file.
SPECIFICATION Spec
INVARIANT FileNotRequired
