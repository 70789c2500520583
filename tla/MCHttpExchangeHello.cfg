\* What the end-to-end test of the repository expects of GET /.
SPECIFICATION Spec
INVARIANT HelloAnsweredVerbatim
