-------------------------- MODULE EnvTemplateProofs --------------------------
(***************************************************************************)
(* Proofs about EnvTemplate, for any variables of each kind, any texts, any *)
(* numbers that survive being written, and any .env.                        *)
(***************************************************************************)
EXTENDS EnvTemplate, WellFoundedInduction, TLAPS

(***************************************************************************)
(* The invariant.                                                          *)
(***************************************************************************)

ParsedAll(texts) == [v \in Variable |-> Parsed(v, texts[v])]

Admissible(env) == \A v \in Variable : Valid(v, env[v])

\* Streams are at work only while the process runs.
StreamsRun == phase # "running" => \A w \in Writer : stream[w] = "none"

\* When no stream is between opening and writing, the one that has written last
\* has found no one's lines but those that were there when it wrote.
LastWhole ==
    (\A w \in Writer : stream[w] # "open") /\ (\E w \in Writer : stream[w] = "closed") =>
        /\ last \in Writer
        /\ IsPrefix(Lines(last, environment), file)
        /\ last # Core => file = Lines(last, environment)

\* The environment of a running process is what the shell and .env say, and valid.
Loaded == phase = "running" => environment = ParsedAll(Filled(shell)) /\ Admissible(environment)

\* Texts of the shell for which the lines of a file stand.
TellsOf(lines, env) ==
    /\ \A i \in DOMAIN lines : lines[i].text = Format(env[lines[i].name])
    /\ lines = <<>> \/ \A v \in ToSet(CoreKeys) : \E i \in DOMAIN lines : lines[i].name = v

\* What the core service has left of a longer file comes after all of CoreEnvironment.
CoreFirst ==
    last = Core /\ Len(file) > Len(CoreKeys) =>
        \A v \in ToSet(CoreKeys) : \E i \in 1..Len(CoreKeys) : file[i].name = v

\* Before a template is sourced the shell does not change, so whichever starts wrote
\* the file, its lines tell of one environment; it holds all of CoreEnvironment or
\* nothing.
OneEnvironment ==
    ~sourced =>
        /\ TellsOf(file, environment)
        /\ \/ environment = NoEnvironment /\ file = <<>>
           \/ environment = ParsedAll(Filled(shell)) /\ Admissible(environment)

\* The variables that no value of an environment sets besides its own.
Alone(env) == {v \in Variable : \A u \in Variable : Also[Format(env[u])][v] = Unset}

\* What a shell has from the template of an environment, but for misread lines.
From(texts, env, wrong) ==
    /\ \A v \in Alone(env) \ wrong : texts[v] \in {Unset, Exported[Format(env[v])]}
    /\ \/ \A v \in Variable : texts[v] = Unset
       \/ \A v \in ToSet(CoreKeys) : texts[v] # Unset

\* The environment a sourced template tells of was parsed and valid once.
Reproduced ==
    sourced =>
        /\ \A v \in Variable : \E text \in Text \cup {Unset} : former[v] = Parsed(v, text)
        /\ Admissible(former)
        /\ From(shell, former, misread)

IInv ==
    /\ TypeOK /\ StreamsRun /\ LastWhole /\ Loaded
    /\ CoreFirst /\ OneEnvironment /\ Reproduced

(***************************************************************************)
(* Variables and values.                                                   *)
(***************************************************************************)

LEMMA Keys ==
    /\ CoreKeys \in Seq(Variable) /\ UserKeys \in Seq(Variable)
    /\ Len(CoreKeys) <= Len(UserKeys)
    /\ Variable = ToSet(Defaulted) \cup ToSet(OfUserDb) \cup ToSet(Others)
    /\ ToSet(CoreKeys) = ToSet(Defaulted) \cup ToSet(Others)
<1>1. Defaulted \in Seq(STRING) /\ OfUserDb \in Seq(STRING) /\ Others \in Seq(STRING)
    BY VariablesAssumption
<1> DEFINE both(s, t) == ToSet(s \o t)
<1>2. ASSUME NEW s \in Seq(STRING), NEW t \in Seq(STRING)
      PROVE  /\ s \o t \in Seq(STRING) /\ Len(s \o t) = Len(s) + Len(t)
             /\ ToSet(s \o t) = ToSet(s) \cup ToSet(t)
    <2>1. /\ s \o t \in Seq(STRING) /\ Len(s \o t) = Len(s) + Len(t)
          /\ \A i \in 1..(Len(s) + Len(t)) :
                (s \o t)[i] = IF i <= Len(s) THEN s[i] ELSE t[i - Len(s)]
        OBVIOUS
    <2>2. ASSUME NEW x \in ToSet(s \o t)
          PROVE  x \in ToSet(s) \cup ToSet(t)
        <3>1. PICK i \in 1..(Len(s) + Len(t)) : x = (s \o t)[i]
            BY <2>1 DEF ToSet
        <3>2. CASE i <= Len(s)
            BY <2>1, <3>1, <3>2 DEF ToSet
        <3>3. CASE i > Len(s)
            <4>1. i - Len(s) \in 1..Len(t) /\ x = t[i - Len(s)]
                BY <2>1, <3>1, <3>3
            <4> QED
                BY <4>1 DEF ToSet
        <3> QED
            BY <3>2, <3>3
    <2>3. ASSUME NEW x \in ToSet(s)
          PROVE  x \in ToSet(s \o t)
        <3>1. PICK i \in 1..Len(s) : x = s[i]
            BY DEF ToSet
        <3>2. i \in 1..(Len(s) + Len(t)) /\ x = (s \o t)[i]
            BY <2>1, <3>1
        <3> QED
            BY <2>1, <3>2 DEF ToSet
    <2>4. ASSUME NEW x \in ToSet(t)
          PROVE  x \in ToSet(s \o t)
        <3>1. PICK i \in 1..Len(t) : x = t[i]
            BY DEF ToSet
        <3>2. Len(s) + i \in 1..(Len(s) + Len(t)) /\ x = (s \o t)[Len(s) + i]
            BY <2>1, <3>1
        <3> QED
            BY <2>1, <3>2 DEF ToSet
    <2> QED
        BY <2>1, <2>2, <2>3, <2>4
<1>3. /\ CoreKeys \in Seq(STRING) /\ Len(CoreKeys) = Len(Defaulted) + Len(Others)
      /\ ToSet(CoreKeys) = ToSet(Defaulted) \cup ToSet(Others)
    BY <1>1, <1>2 DEF CoreKeys
<1>4. /\ Defaulted \o OfUserDb \in Seq(STRING)
      /\ Len(Defaulted \o OfUserDb) = Len(Defaulted) + Len(OfUserDb)
      /\ ToSet(Defaulted \o OfUserDb) = ToSet(Defaulted) \cup ToSet(OfUserDb)
    BY <1>1, <1>2
<1> DEFINE front == Defaulted \o OfUserDb
<1>5. UserKeys = front \o Others
    BY <1>1 DEF UserKeys
<1>6. front \in Seq(STRING) /\ Len(front) = Len(Defaulted) + Len(OfUserDb)
      /\ ToSet(front) = ToSet(Defaulted) \cup ToSet(OfUserDb)
    BY <1>4
<1> HIDE DEF front
<1>7. /\ UserKeys \in Seq(STRING)
      /\ Len(UserKeys) = Len(Defaulted) + Len(OfUserDb) + Len(Others)
      /\ ToSet(UserKeys) = (ToSet(Defaulted) \cup ToSet(OfUserDb)) \cup ToSet(Others)
    BY <1>1, <1>2, <1>5, <1>6
<1>8. Len(Defaulted) \in Nat /\ Len(OfUserDb) \in Nat /\ Len(Others) \in Nat
    BY <1>1
<1>9. Len(CoreKeys) <= Len(UserKeys)
    BY <1>3, <1>7, <1>8
<1>10. ASSUME NEW s \in Seq(STRING), ToSet(s) \subseteq Variable
       PROVE  s \in Seq(Variable)
    <2>1. \A i \in 1..Len(s) : s[i] \in Variable
        BY <1>10 DEF ToSet
    <2> QED
        BY <2>1
<1>11. ToSet(CoreKeys) \subseteq Variable
    BY <1>3, <1>7 DEF Variable
<1> QED
    BY <1>3, <1>7, <1>9, <1>10, <1>11 DEF Variable

LEMMA ParsedType ==
    ASSUME NEW v \in Variable, NEW text \in Text \cup {Unset}
    PROVE  Parsed(v, text) \in Text \cup {Undefined, NaN}
<1>1. Type[v] \in {"string", "number", "boolean"}
    BY VariablesAssumption
<1>2. DefaultOf(v) \in Text \cup {Undefined}
    BY DefaultsAssumption DEF DefaultOf
<1>3. CASE text = Unset
    BY <1>2, <1>3 DEF Parsed
<1>4. CASE text # Unset
    <2>1. text \in Text /\ Number[text] \in Text \cup {NaN}
        BY <1>4, TextsAssumption
    <2>2. stringToBoolean(text) \in Text
        BY TextsAssumption DEF stringToBoolean
    <2> QED
        BY <1>1, <1>4, <2>1, <2>2 DEF Parsed
<1> QED
    BY <1>3, <1>4

\* What was parsed once and is a text is parsed to the same value again.
LEMMA ParsedAgain ==
    ASSUME NEW v \in Variable, NEW text \in Text \cup {Unset}, Parsed(v, text) \in Text
    PROVE  Parsed(v, Parsed(v, text)) = Parsed(v, text)
<1> DEFINE value == Parsed(v, text)
<1>1. Type[v] \in {"string", "number", "boolean"}
    BY VariablesAssumption
<1>2. value \in Text /\ value # Unset /\ value # NaN /\ value # Undefined
    BY TextsAssumption
<1>3. CASE text = Unset
    <2>1. v \in ToSet(Defaulted) /\ value = Default[v]
        BY <1>2, <1>3 DEF Parsed, DefaultOf
    <2> QED
        BY <2>1, DefaultsAssumption
<1>4. CASE text # Unset /\ Type[v] = "boolean"
    <2>1. value = stringToBoolean(text)
        BY <1>4 DEF Parsed
    <2>2. stringToBoolean(value) = value
        BY <2>1, TextsAssumption DEF stringToBoolean
    <2>3. Parsed(v, value) = stringToBoolean(value)
        BY <1>2, <1>4 DEF Parsed
    <2> QED
        BY <2>2, <2>3
<1>5. CASE text # Unset /\ Type[v] = "number"
    <2>1. value = Number[text] /\ text \in Text
        BY <1>5 DEF Parsed
    <2>2. Number[value] = value
        BY <1>2, <2>1, TextsAssumption
    <2>3. Parsed(v, value) = Number[value]
        BY <1>2, <1>5 DEF Parsed
    <2> QED
        BY <2>2, <2>3
<1>6. CASE text # Unset /\ Type[v] = "string"
    <2>1. ASSUME NEW t, t # Unset
          PROVE  Parsed(v, t) = t
        BY <1>6, <2>1 DEF Parsed
    <2> QED
        BY <1>2, <2>1
<1> QED
    BY <1>1, <1>3, <1>4, <1>5, <1>6

LEMMA AllParsed ==
    ASSUME NEW texts \in [Variable -> Text \cup {Unset}], Admissible(ParsedAll(texts))
    PROVE  ParsedAll(texts) \in [Variable -> Text \cup {Undefined}]
<1>1. ASSUME NEW v \in Variable
      PROVE  Parsed(v, texts[v]) \in Text \cup {Undefined}
    <2>1. ParsedAll(texts)[v] = Parsed(v, texts[v])
        BY DEF ParsedAll
    <2>2. Parsed(v, texts[v]) # NaN
        BY <2>1 DEF Admissible, Valid
    <2> QED
        BY <2>2, ParsedType
<1> QED
    BY <1>1 DEF ParsedAll

\* What the shell and .env have together.
LEMMA FilledType ==
    ASSUME NEW texts \in [Variable -> Text \cup {Unset}], dotenv \in [Variable -> Text \cup {Unset}]
    PROVE  Filled(texts) \in [Variable -> Text \cup {Unset}]
BY DEF Filled

(***************************************************************************)
(* The file.                                                               *)
(***************************************************************************)

\* An environment of a process that runs or has run; its values can be written.
Writable(env) == env \in [Variable -> Text \cup {Undefined}]

LEMMA Formatted ==
    ASSUME NEW env, Writable(env), NEW v \in Variable
    PROVE  Format(env[v]) \in Text
BY TextsAssumption DEF Writable, Format

\* What a writer hands to its stream.
LEMMA LinesOfWriter ==
    ASSUME NEW env, Writable(env), NEW w \in Writer
    PROVE  /\ Lines(w, env) \in Seq(Line)
           /\ Len(Lines(w, env)) <= Len(UserKeys)
           /\ w # Core => Len(Lines(w, env)) = Len(UserKeys)
           /\ \A i \in 1..Len(Lines(w, env)) :
                 Lines(w, env)[i].text = Format(env[Lines(w, env)[i].name])
           /\ \A v \in ToSet(CoreKeys) : \E i \in 1..Len(Lines(w, env)) : Lines(w, env)[i].name = v
<1> DEFINE keys == KeysOf(w)
           lines == Lines(w, env)
<1>1. /\ keys \in Seq(Variable) /\ Len(keys) <= Len(UserKeys)
      /\ w # Core => Len(keys) = Len(UserKeys)
      /\ ToSet(CoreKeys) \subseteq ToSet(keys)
    <2>1. Len(UserKeys) \in Nat /\ ToSet(CoreKeys) \subseteq ToSet(UserKeys)
        BY Keys DEF Variable
    <2>2. keys = IF w = Core THEN CoreKeys ELSE UserKeys
        BY DEF KeysOf
    <2> QED
        BY <2>1, <2>2, Keys
<1>2. lines = [i \in DOMAIN keys |-> [name |-> keys[i], text |-> Format(env[keys[i]])]]
    BY DEF Lines
<1> HIDE DEF keys, lines
<1>3. DOMAIN keys = 1..Len(keys) /\ Len(keys) \in Nat /\ \A i \in 1..Len(keys) : keys[i] \in Variable
    BY <1>1
<1>4. \A i \in 1..Len(keys) : lines[i] = [name |-> keys[i], text |-> Format(env[keys[i]])]
    BY <1>2, <1>3
<1>5. ASSUME NEW i \in 1..Len(keys)
      PROVE  /\ lines[i] \in Line /\ lines[i].name = keys[i]
             /\ lines[i].text = Format(env[lines[i].name])
    <2>1. keys[i] \in Variable /\ Format(env[keys[i]]) \in Text
        BY <1>3, Formatted
    <2>2. lines[i] = [name |-> keys[i], text |-> Format(env[keys[i]])]
        BY <1>4
    <2> QED
        BY <2>1, <2>2 DEF Line
<1>6. lines \in Seq(Line) /\ Len(lines) = Len(keys)
    BY <1>2, <1>3, <1>4, <1>5
<1>7. \A i \in 1..Len(lines) : lines[i].text = Format(env[lines[i].name])
    BY <1>5, <1>6
<1>8. ASSUME NEW v \in ToSet(CoreKeys)
      PROVE  \E i \in 1..Len(lines) : lines[i].name = v
    <2>1. PICK i \in 1..Len(keys) : keys[i] = v
        BY <1>1, <1>3 DEF ToSet
    <2> QED
        BY <1>5, <1>6, <2>1
<1> QED
    BY <1>1, <1>6, <1>7, <1>8 DEF lines

\* What is in a file that was written over.
LEMMA WrittenOver ==
    ASSUME NEW S, NEW old \in Seq(S), NEW new \in Seq(S)
    PROVE  /\ Written(old, new) \in Seq(S)
           /\ Len(Written(old, new)) = IF Len(old) <= Len(new) THEN Len(new) ELSE Len(old)
           /\ \A i \in 1..Len(Written(old, new)) :
                 Written(old, new)[i] = IF i <= Len(new) THEN new[i] ELSE old[i]
           /\ Len(old) <= Len(new) => Written(old, new) = new
<1> DEFINE rest == SubSeq(old, Len(new) + 1, Len(old))
           file2 == new \o rest
<1>1. Len(old) \in Nat /\ Len(new) \in Nat
    OBVIOUS
<1>2. CASE Len(old) <= Len(new)
    <2>1. rest = <<>>
        BY <1>1, <1>2
    <2>2. Written(old, new) = new
        <3>1. new \o <<>> = new
            OBVIOUS
        <3> QED
            BY <2>1, <3>1 DEF Written
    <2> QED
        BY <1>1, <1>2, <2>2
<1>3. CASE Len(old) > Len(new)
    <2>1. /\ rest \in Seq(S) /\ Len(rest) = Len(old) - Len(new)
          /\ \A i \in 1..(Len(old) - Len(new)) : rest[i] = old[Len(new) + i]
        BY <1>1, <1>3
    <2>2. Written(old, new) = file2
        BY DEF Written
    <2> HIDE DEF rest
    <2>3. file2 \in Seq(S) /\ Len(file2) = Len(old)
        BY <1>1, <2>1
    <2>4. ASSUME NEW i \in 1..Len(old)
          PROVE  file2[i] = IF i <= Len(new) THEN new[i] ELSE old[i]
        <3>1. CASE i <= Len(new)
            BY <1>1, <2>1, <3>1
        <3>2. CASE i > Len(new)
            <4>1. file2[i] = rest[i - Len(new)]
                BY <1>1, <2>1, <3>2
            <4>2. rest[i - Len(new)] = old[Len(new) + (i - Len(new))]
                BY <1>1, <2>1, <3>2
            <4> QED
                BY <1>1, <3>2, <4>1, <4>2
        <3>3. i <= Len(new) \/ i > Len(new)
            BY <1>1
        <3> QED
            BY <3>1, <3>2, <3>3
    <2> HIDE DEF file2
    <2> QED
        BY <1>1, <1>3, <2>2, <2>3, <2>4
<1>4. Len(old) <= Len(new) \/ Len(old) > Len(new)
    BY <1>1
<1> QED
    BY <1>2, <1>3, <1>4

\* A file starts with what was written last.
LEMMA WrittenFirst ==
    ASSUME NEW S, NEW old \in Seq(S), NEW new \in Seq(S)
    PROVE  IsPrefix(new, Written(old, new))
<1> DEFINE f == Written(old, new)
<1>1. f \in Seq(S) /\ Len(f) \in Nat /\ Len(new) \in Nat /\ Len(new) <= Len(f)
    BY WrittenOver
<1>2. \A i \in 1..Len(new) : f[i] = new[i]
    BY WrittenOver, <1>1
<1> HIDE DEF f
<1>3. SubSeq(new, 1, Len(new)) = SubSeq(f, 1, Len(new))
    BY <1>1, <1>2
<1> QED
    BY <1>1, <1>3 DEF IsPrefix, f

\* Writing keeps to the one environment.
LEMMA WrittenTells ==
    ASSUME NEW env, Writable(env), NEW w \in Writer,
           NEW old \in Seq(Line), TellsOf(old, env)
    PROVE  TellsOf(Written(old, Lines(w, env)), env)
<1> DEFINE new == Lines(w, env)
           f == Written(old, new)
<1>1. /\ new \in Seq(Line)
      /\ \A i \in 1..Len(new) : new[i].text = Format(env[new[i].name])
      /\ \A v \in ToSet(CoreKeys) : \E i \in 1..Len(new) : new[i].name = v
    BY LinesOfWriter
<1> HIDE DEF new
<1>2. /\ f \in Seq(Line)
      /\ Len(f) = IF Len(old) <= Len(new) THEN Len(new) ELSE Len(old)
      /\ \A i \in 1..Len(f) : f[i] = IF i <= Len(new) THEN new[i] ELSE old[i]
    BY <1>1, WrittenOver
<1> HIDE DEF f
<1>3. Len(new) \in Nat /\ Len(old) \in Nat /\ DOMAIN f = 1..Len(f) /\ DOMAIN old = 1..Len(old)
    BY <1>1, <1>2
<1>4. ASSUME NEW i \in 1..Len(f)
      PROVE  f[i].text = Format(env[f[i].name])
    <2>1. CASE i <= Len(new)
        BY <1>1, <1>2, <1>3, <2>1
    <2>2. CASE i > Len(new)
        <3>1. i \in 1..Len(old) /\ f[i] = old[i]
            BY <1>2, <1>3, <2>2
        <3> QED
            BY <1>3, <3>1 DEF TellsOf
    <2> QED
        BY <1>3, <2>1, <2>2
<1>5. ASSUME NEW v \in ToSet(CoreKeys)
      PROVE  \E i \in DOMAIN f : f[i].name = v
    <2>1. PICK i \in 1..Len(new) : new[i].name = v
        BY <1>1
    <2>2. i \in 1..Len(f) /\ f[i] = new[i]
        BY <1>2, <1>3
    <2> QED
        BY <1>3, <2>1, <2>2
<1> QED
    BY <1>3, <1>4, <1>5 DEF TellsOf, f, new

(***************************************************************************)
(* Sourcing.                                                               *)
(***************************************************************************)

LEMMA Greatest ==
    ASSUME NEW n \in Nat, NEW T, T \subseteq 1..n, T # {}
    PROVE  \E i \in T : \A j \in T : j <= i
<1> DEFINE R == OpToRel(<, Nat)
           U == {n - i : i \in T}
<1>1. U \subseteq Nat /\ U # {}
    <2>1. \A i \in T : i \in 1..n /\ n - i \in Nat
        OBVIOUS
    <2> QED
        BY <2>1
<1>2. PICK x \in U : \A y \in U : ~ (<<y, x>> \in R)
    <2>1. IsWellFoundedOn(R, Nat)
        BY NatLessThanWellFounded
    <2> HIDE DEF R, U
    <2> QED
        BY <1>1, <2>1, WFMin
<1>3. \A y \in U : ~ (y < x)
    BY <1>1, <1>2 DEF OpToRel
<1>4. PICK i \in T : x = n - i
    OBVIOUS
<1>5. ASSUME NEW j \in T
      PROVE  j <= i
    BY <1>3, <1>4
<1> QED
    BY <1>5

\* A file is read line by line, but for one that may be cut.
LEMMA Read ==
    ASSUME file \in Seq(Line), NEW lines \in Readings
    PROVE  /\ DOMAIN lines = 1..Len(file)
           /\ \A i \in 1..Len(file) : lines[i].text = file[i].text
           /\ \/ lines = file
              \/ /\ last = Core /\ Len(file) > Len(CoreKeys)
                 /\ \A i \in 1..Len(CoreKeys) : lines[i] = file[i]
<1> DEFINE cut == Len(CoreKeys) + 1
<1>1. Len(file) \in Nat /\ DOMAIN file = 1..Len(file) /\ Len(CoreKeys) \in Nat
    BY Keys
<1>2. CASE lines = file
    BY <1>1, <1>2
<1>3. CASE last = Core /\ Len(file) >= cut
    <2>1. PICK name : lines = [file EXCEPT ![cut].name = name]
        BY <1>3 DEF Readings
    <2>2. /\ cut \in 1..Len(file) /\ Len(file) > Len(CoreKeys)
          /\ \A i \in 1..Len(CoreKeys) : i # cut /\ i \in 1..Len(file)
        BY <1>1, <1>3
    <2>3. file[cut] \in Line
        BY <2>2
    <2> HIDE DEF cut
    <2>4. DOMAIN lines = 1..Len(file)
        BY <1>1, <2>1
    <2>5. \A i \in 1..Len(file) : lines[i] = IF i = cut THEN [file[cut] EXCEPT !.name = name] ELSE file[i]
        BY <1>1, <2>1
    <2>6. [file[cut] EXCEPT !.name = name].text = file[cut].text
        BY <2>3 DEF Line
    <2> QED
        BY <1>3, <2>2, <2>4, <2>5, <2>6
<1> QED
    BY <1>2, <1>3 DEF Readings

\* A shell that has sourced a file with the lines of one environment.
LEMMA SourcedFrom ==
    ASSUME NEW env, Writable(env), file \in Seq(Line), TellsOf(file, env), CoreFirst,
           NEW lines \in Readings,
           NEW wrong,
           wrong = {v \in Variable : \E i \in DOMAIN file : lines[i].name = v /\ file[i].name # v}
    PROVE  /\ From(SourcedShell(lines), env, wrong)
           /\ SourcedShell(lines) \in [Variable -> Text \cup {Unset}]
<1> DEFINE texts == SourcedShell(lines)
           Found(v) == Setting(lines, v)
<1>1. /\ DOMAIN file = 1..Len(file) /\ Len(file) \in Nat /\ DOMAIN lines = DOMAIN file
      /\ \A i \in DOMAIN file : file[i] \in Line /\ lines[i].text = file[i].text
    BY Read
<1>2. ASSUME NEW i \in DOMAIN file
      PROVE  /\ file[i].name \in Variable /\ lines[i].text \in Text
             /\ lines[i].text = Format(env[file[i].name])
    BY <1>1 DEF TellsOf, Line
<1>3. ASSUME NEW v \in Variable, Found(v) # {}
      PROVE  \E i \in Found(v) : texts[v] = SetBy(lines[i], v)
    <2> DEFINE i == CHOOSE k \in Found(v) : \A j \in Found(v) : j <= k
    <2>1. Found(v) \subseteq 1..Len(file)
        BY <1>1 DEF Setting
    <2>2. \E k \in Found(v) : \A j \in Found(v) : j <= k
        BY <1>1, <1>3, <2>1, Greatest
    <2>3. i \in Found(v)
        BY <2>2
    <2>4. texts[v] = SetBy(lines[i], v)
        BY <1>3 DEF SourcedShell
    <2> QED
        BY <2>3, <2>4
<1>4. ASSUME NEW v \in Variable, Found(v) = {}
      PROVE  texts[v] = Unset
    BY <1>4 DEF SourcedShell
<1>5. ASSUME NEW v \in Variable, Found(v) # {}
      PROVE  texts[v] \in Text
    <2>1. PICK i \in Found(v) : texts[v] = SetBy(lines[i], v)
        BY <1>3, <1>5
    <2>2. lines[i].text \in Text
        BY <1>1, <1>2 DEF Setting
    <2>3. Exported[lines[i].text] \in Text /\ Also[lines[i].text][v] \in Text \cup {Unset}
        BY <2>2, TextsAssumption
    <2> QED
        BY <2>1, <2>3 DEF SetBy
<1>6. texts \in [Variable -> Text \cup {Unset}]
    <2>1. DOMAIN texts = Variable /\ texts = [v \in Variable |-> texts[v]]
        BY DEF SourcedShell
    <2> HIDE DEF texts, Found
    <2> QED
        BY <1>4, <1>5, <2>1
<1>7. ASSUME NEW v \in Alone(env), v \notin wrong
      PROVE  texts[v] \in {Unset, Exported[Format(env[v])]}
    <2>1. v \in Variable /\ \A u \in Variable : Also[Format(env[u])][v] = Unset
        BY <1>7 DEF Alone
    <2>2. ASSUME NEW i \in Found(v)
          PROVE  SetBy(lines[i], v) = Exported[Format(env[v])]
        <3>1. i \in DOMAIN file
            BY <1>1 DEF Setting
        <3>2. Also[lines[i].text][v] = Unset
            BY <1>2, <2>1, <3>1
        <3>3. lines[i].name = v
            BY <3>2 DEF Setting
        <3>4. file[i].name = v
            BY <1>7, <2>1, <3>1, <3>3
        <3> QED
            BY <1>2, <3>1, <3>2, <3>4 DEF SetBy
    <2> HIDE DEF texts, Found
    <2> QED
        BY <1>3, <1>4, <2>1, <2>2
<1>8. CASE file = <<>>
    <2>1. \A v \in Variable : Found(v) = {}
        BY <1>1, <1>8 DEF Setting
    <2> HIDE DEF texts, Found
    <2> QED
        BY <1>4, <1>6, <1>7, <2>1 DEF From, texts
<1>9. CASE \A v \in ToSet(CoreKeys) : \E i \in DOMAIN file : file[i].name = v
    <2>1. ASSUME NEW v \in ToSet(CoreKeys)
          PROVE  v \in Variable /\ \E i \in DOMAIN lines : lines[i].name = v
        <3>1. v \in Variable
            BY Keys
        <3>2. CASE lines = file
            BY <1>9, <3>1, <3>2
        <3>3. CASE /\ last = Core /\ Len(file) > Len(CoreKeys)
                   /\ \A i \in 1..Len(CoreKeys) : lines[i] = file[i]
            <4>1. PICK i \in 1..Len(CoreKeys) : file[i].name = v
                BY <3>3 DEF CoreFirst
            <4>2. i \in DOMAIN lines
                BY <1>1, <3>3, Keys
            <4> QED
                BY <3>1, <3>3, <4>1, <4>2
        <3> QED
            BY <3>2, <3>3, Read
    <2>2. \A v \in ToSet(CoreKeys) : v \in Variable /\ Found(v) # {}
        BY <2>1 DEF Setting
    <2> HIDE DEF texts, Found
    <2>3. \A v \in ToSet(CoreKeys) : texts[v] # Unset
        BY <1>5, <2>2, TextsAssumption
    <2> QED
        BY <1>6, <1>7, <2>3 DEF From, texts
<1> QED
    BY <1>8, <1>9 DEF TellsOf

\* An environment from a shell that sourced the template of another one.
LEMMA FromTemplate ==
    ASSUME NEW env, NEW texts \in [Variable -> Text \cup {Unset}], NEW wrong,
           From(texts, env, wrong),
           \A v \in Variable : \E text \in Text \cup {Unset} : env[v] = Parsed(v, text),
           Admissible(env)
    PROVE  \/ \A v \in Variable : ParsedAll(Filled(texts))[v] = Parsed(v, dotenv[v])
           \/ \A v \in Carried(env) \ wrong :
                 \/ ParsedAll(Filled(texts))[v] = env[v]
                 \/ v \in ToSet(OfUserDb) /\ ParsedAll(Filled(texts))[v] = Parsed(v, dotenv[v])
<1>1. \A v \in Variable :
          ParsedAll(Filled(texts))[v] = Parsed(v, IF texts[v] = Unset THEN dotenv[v] ELSE texts[v])
    BY DEF ParsedAll, Filled
<1>2. CASE \A v \in Variable : texts[v] = Unset
    BY <1>1, <1>2
<1>3. CASE \A v \in ToSet(CoreKeys) : texts[v] # Unset
    <2>1. ASSUME NEW v \in Carried(env) \ wrong
          PROVE  \/ ParsedAll(Filled(texts))[v] = env[v]
                 \/ v \in ToSet(OfUserDb) /\ ParsedAll(Filled(texts))[v] = Parsed(v, dotenv[v])
        <3>1. v \in Alone(env) \ wrong /\ v \in Variable
            BY <2>1 DEF Carried, Alone
        <3>2. env[v] # Undefined /\ Exported[env[v]] = env[v]
            BY <2>1 DEF Carried
        <3>3. CASE texts[v] = Unset
            <4>1. v \notin ToSet(CoreKeys)
                BY <1>3, <3>3
            <4>2. v \in ToSet(OfUserDb)
                BY <3>1, <4>1, Keys
            <4> QED
                BY <1>1, <3>1, <3>3, <4>2
        <3>4. CASE texts[v] # Unset
            <4>1. texts[v] = Exported[Format(env[v])]
                BY <3>1, <3>4 DEF From
            <4>2. texts[v] = env[v]
                BY <3>2, <4>1 DEF Format
            <4>3. PICK text \in Text \cup {Unset} : env[v] = Parsed(v, text)
                BY <3>1
            <4>4. env[v] \in Text
                <5>1. env[v] # NaN
                    BY <3>1 DEF Admissible, Valid
                <5> QED
                    BY <3>2, <4>3, <5>1, ParsedType, <3>1
            <4>5. Parsed(v, texts[v]) = env[v]
                BY <3>1, <4>2, <4>3, <4>4, ParsedAgain
            <4> QED
                BY <1>1, <3>1, <3>4, <4>5
        <3> QED
            BY <3>3, <3>4
    <2> QED
        BY <2>1
<1> QED
    BY <1>2, <1>3 DEF From

(***************************************************************************)
(* The steps.                                                              *)
(***************************************************************************)

LEMMA Initially == Init => IInv
<1> SUFFICES ASSUME Init PROVE IInv
    OBVIOUS
<1>1. shell \in [Variable -> Text \cup {Unset}] /\ dotenv \in [Variable -> Text \cup {Unset}]
    BY TextsAssumption DEF Init
<1>2. NoEnvironment \in [Variable -> Text \cup {Undefined, Unset}]
    BY DEF NoEnvironment
<1>3. Len(UserKeys) \in Nat
    BY Keys
<1>4. TypeOK
    <2>1. file \in Seq(Line) /\ Len(file) <= Len(UserKeys)
        BY <1>3 DEF Init
    <2>2. stream \in [Writer -> {"none", "opening", "open", "closed"}]
        BY DEF Init
    <2>3. production \in BOOLEAN /\ sourced \in BOOLEAN /\ misread \subseteq Variable
        BY DEF Init
    <2>4. /\ phase \in {"idle", "running", "failed"} /\ last \in Writer \cup {"none"}
          /\ environment = NoEnvironment /\ former = NoEnvironment
        BY DEF Init
    <2> QED
        BY <1>1, <1>2, <2>1, <2>2, <2>3, <2>4 DEF TypeOK
<1>5. TellsOf(file, environment)
    BY DEF Init, TellsOf
<1> QED
    BY <1>4, <1>5 DEF Init, IInv, StreamsRun, LastWhole, Loaded, CoreFirst, OneEnvironment,
                      Reproduced

\* A process that runs has an environment that can be written.
LEMMA RunningWritable ==
    ASSUME IInv, phase = "running"
    PROVE  Writable(environment)
BY AllParsed, FilledType DEF IInv, TypeOK, Loaded, Writable

LEMMA StartKeeps == IInv /\ Start => IInv'
<1> SUFFICES ASSUME IInv, Start PROVE IInv'
    OBVIOUS
<1> DEFINE parsed == [v \in Variable |-> Parsed(v, Filled(shell)[v])]
<1>1. /\ phase = "idle"
      /\ UNCHANGED <<production, dotenv, shell, former, sourced, misread, last, file>>
    BY DEF Start
<1>2. parsed = ParsedAll(Filled(shell))
    BY DEF ParsedAll
<1>3. /\ Filled(shell) \in [Variable -> Text \cup {Unset}] /\ Filled(shell)' = Filled(shell)
      /\ \A w \in Writer : stream[w] = "none"
    BY <1>1, FilledType DEF IInv, TypeOK, StreamsRun, Filled
<1>4. CASE \A v \in Variable : Valid(v, parsed[v])
    <2>1. /\ phase' = "running" /\ environment' = ParsedAll(Filled(shell))
          /\ stream' = [w \in Writer |-> IF production THEN "none" ELSE "opening"]
        BY <1>2, <1>4 DEF Start
    <2>2. Admissible(ParsedAll(Filled(shell)))
        BY <1>2, <1>4 DEF Admissible
    <2>3. environment' \in [Variable -> Text \cup {Undefined}]
        BY <1>3, <2>1, <2>2, AllParsed
    <2>4. environment' \in [Variable -> Text \cup {Undefined, Unset}]
        BY <2>3
    <2>5. stream' \in [Writer -> {"none", "opening", "open", "closed"}]
        BY <2>1
    <2>6. TypeOK'
        BY <1>1, <2>1, <2>4, <2>5 DEF IInv, TypeOK
    <2>7. \A w \in Writer : stream'[w] # "closed"
        BY <2>1
    <2>8. StreamsRun' /\ LastWhole' /\ Loaded' /\ CoreFirst'
        BY <1>1, <1>3, <2>1, <2>2, <2>7 DEF IInv, StreamsRun, LastWhole, Loaded, CoreFirst
    <2>9. ASSUME ~sourced
          PROVE  TellsOf(file, environment')
        <3>1. CASE file = <<>>
            BY <3>1 DEF TellsOf
        <3>2. CASE environment = ParsedAll(Filled(shell))
            BY <2>1, <2>9, <3>2 DEF IInv, OneEnvironment
        <3> QED
            BY <2>9, <3>1, <3>2 DEF IInv, OneEnvironment
    <2>10. OneEnvironment'
        BY <1>1, <1>3, <2>1, <2>2, <2>9 DEF OneEnvironment
    <2>11. Reproduced'
        BY <1>1 DEF IInv, Reproduced
    <2> QED
        BY <2>6, <2>8, <2>10, <2>11 DEF IInv
<1>5. CASE ~ \A v \in Variable : Valid(v, parsed[v])
    <2>1. phase' = "failed" /\ UNCHANGED <<environment, stream>>
        BY <1>5 DEF Start
    <2>2. TypeOK'
        BY <1>1, <2>1 DEF IInv, TypeOK
    <2>3. StreamsRun' /\ LastWhole' /\ Loaded' /\ CoreFirst'
        BY <1>1, <1>3, <2>1 DEF IInv, StreamsRun, LastWhole, Loaded, CoreFirst
    <2>4. OneEnvironment' /\ Reproduced'
        BY <1>1, <1>3, <2>1 DEF IInv, OneEnvironment, Reproduced
    <2> QED
        BY <2>2, <2>3, <2>4 DEF IInv
<1> QED
    BY <1>4, <1>5

LEMMA OpenKeeps == IInv /\ (\E w \in Writer : Open(w)) => IInv'
<1> SUFFICES ASSUME IInv, NEW w \in Writer, Open(w) PROVE IInv'
    OBVIOUS
<1>1. /\ stream[w] = "opening" /\ stream' = [stream EXCEPT ![w] = "open"] /\ file' = <<>>
      /\ UNCHANGED <<production, dotenv, shell, phase, environment, former, sourced, misread, last>>
    BY DEF Open
<1>2. stream \in [Writer -> {"none", "opening", "open", "closed"}]
    BY DEF IInv, TypeOK
<1>3. stream' \in [Writer -> {"none", "opening", "open", "closed"}] /\ stream'[w] = "open"
    BY <1>1, <1>2
<1>4. phase = "running"
    BY <1>1 DEF IInv, StreamsRun
<1>5. Len(UserKeys) \in Nat /\ file' \in Seq(Line) /\ Len(file') = 0
    BY <1>1, Keys
<1>6. TypeOK'
    BY <1>1, <1>3, <1>5 DEF IInv, TypeOK
<1>0. Filled(shell)' = Filled(shell)
    BY <1>1 DEF Filled
<1>7. StreamsRun' /\ LastWhole' /\ Loaded' /\ CoreFirst'
    <2>1. ~(Len(file') > Len(CoreKeys))
        BY <1>5, Keys
    <2> QED
        BY <1>0, <1>1, <1>3, <1>4, <2>1 DEF IInv, StreamsRun, LastWhole, Loaded, CoreFirst
<1>8. TellsOf(file', environment')
    BY <1>1 DEF TellsOf
<1>9. OneEnvironment' /\ Reproduced'
    BY <1>0, <1>1, <1>8 DEF IInv, OneEnvironment, Reproduced
<1> QED
    BY <1>6, <1>7, <1>9 DEF IInv

LEMMA WriteKeeps == IInv /\ (\E w \in Writer : Write(w)) => IInv'
<1> SUFFICES ASSUME IInv, NEW w \in Writer, Write(w) PROVE IInv'
    OBVIOUS
<1> DEFINE lines == Lines(w, environment)
<1>1. /\ stream[w] = "open" /\ stream' = [stream EXCEPT ![w] = "closed"]
      /\ file' = Written(file, lines) /\ last' = w
      /\ UNCHANGED <<production, dotenv, shell, phase, environment, former, sourced, misread>>
    BY DEF Write
<1>2. stream \in [Writer -> {"none", "opening", "open", "closed"}]
    BY DEF IInv, TypeOK
<1>3. stream' \in [Writer -> {"none", "opening", "open", "closed"}]
    BY <1>1, <1>2
<1>4. phase = "running" /\ Writable(environment)
    BY <1>1, RunningWritable DEF IInv, StreamsRun
<1>5. /\ lines \in Seq(Line) /\ Len(lines) <= Len(UserKeys)
      /\ w # Core => Len(lines) = Len(UserKeys)
    BY <1>4, LinesOfWriter
<1>6. file \in Seq(Line) /\ Len(file) <= Len(UserKeys)
    BY DEF IInv, TypeOK
<1> HIDE DEF lines
<1>7. file' \in Seq(Line) /\ Len(file') <= Len(UserKeys)
    BY <1>1, <1>5, <1>6, WrittenOver
<1>8. IsPrefix(lines, file')
    BY <1>1, <1>5, <1>6, WrittenFirst
<1>9. w # Core => file' = lines
    BY <1>1, <1>5, <1>6, WrittenOver
<1>10. TypeOK'
    BY <1>1, <1>3, <1>7 DEF IInv, TypeOK
<1>11. LastWhole'
    BY <1>1, <1>8, <1>9 DEF LastWhole, lines
<1>0. Filled(shell)' = Filled(shell)
    BY <1>1 DEF Filled
<1>12. StreamsRun' /\ Loaded'
    BY <1>0, <1>1, <1>4 DEF IInv, StreamsRun, Loaded
<1>15. CoreFirst'
    <2> SUFFICES ASSUME w = Core, NEW v \in ToSet(CoreKeys)
                 PROVE  \E i \in 1..Len(CoreKeys) : file'[i].name = v
        BY <1>1 DEF CoreFirst
    <2>1. PICK i \in 1..Len(lines) : lines[i].name = v
        BY <1>4, LinesOfWriter DEF lines
    <2>2. Len(lines) = Len(CoreKeys)
        BY Keys DEF lines, Lines, KeysOf
    <2>3. i \in 1..Len(file') /\ file'[i] = lines[i]
        BY <1>1, <1>5, <1>6, WrittenOver
    <2> QED
        BY <2>1, <2>2, <2>3
<1>13. OneEnvironment'
    <2> SUFFICES ASSUME ~sourced
                 PROVE  /\ TellsOf(file', environment)
                        /\ environment = ParsedAll(Filled(shell)) /\ Admissible(environment)
        BY <1>0, <1>1 DEF OneEnvironment
    <2>1. TellsOf(file', environment)
        BY <1>1, <1>4, <1>6, WrittenTells DEF IInv, OneEnvironment, lines
    <2> QED
        BY <1>4, <2>1 DEF IInv, Loaded
<1>14. Reproduced'
    BY <1>1 DEF IInv, Reproduced
<1> QED
    BY <1>10, <1>11, <1>12, <1>13, <1>14, <1>15 DEF IInv

LEMMA StopKeeps == IInv /\ Stop => IInv'
<1> SUFFICES ASSUME IInv, Stop PROVE IInv'
    OBVIOUS
<1>1. /\ phase' = "idle" /\ stream' = [w \in Writer |-> "none"]
      /\ UNCHANGED <<production, dotenv, shell, environment, former, sourced, misread, last, file>>
    BY DEF Stop
<1>2. TypeOK'
    BY <1>1 DEF IInv, TypeOK
<1>0. Filled(shell)' = Filled(shell)
    BY <1>1 DEF Filled
<1>3. StreamsRun' /\ LastWhole' /\ Loaded' /\ CoreFirst'
    BY <1>0, <1>1 DEF IInv, StreamsRun, LastWhole, Loaded, CoreFirst
<1>4. OneEnvironment' /\ Reproduced'
    BY <1>0, <1>1 DEF IInv, OneEnvironment, Reproduced
<1> QED
    BY <1>2, <1>3, <1>4 DEF IInv

LEMMA SourceKeeps == IInv /\ SourceTemplate => IInv'
<1> SUFFICES ASSUME IInv, SourceTemplate PROVE IInv'
    OBVIOUS
<1>1. /\ phase = "idle" /\ ~sourced /\ environment # NoEnvironment
      /\ sourced' /\ former' = environment
      /\ UNCHANGED <<production, dotenv, phase, environment, stream, last, file>>
    BY DEF SourceTemplate
<1>2. PICK lines \in Readings :
          /\ shell' = SourcedShell(lines)
          /\ misread' = {v \in Variable : \E i \in DOMAIN file : lines[i].name = v /\ file[i].name # v}
    BY DEF SourceTemplate
<1>3. /\ TellsOf(file, environment) /\ CoreFirst
      /\ environment = ParsedAll(Filled(shell)) /\ Admissible(environment)
    BY <1>1 DEF IInv, OneEnvironment
<1>4. Filled(shell) \in [Variable -> Text \cup {Unset}] /\ file \in Seq(Line)
    BY FilledType DEF IInv, TypeOK
<1>5. Writable(environment)
    BY <1>3, <1>4, AllParsed DEF Writable
<1>6. From(shell', former', misread') /\ shell' \in [Variable -> Text \cup {Unset}]
    <2>1. /\ From(SourcedShell(lines), environment, misread')
          /\ SourcedShell(lines) \in [Variable -> Text \cup {Unset}]
        BY <1>2, <1>3, <1>4, <1>5, SourcedFrom
    <2> QED
        BY <1>1, <1>2, <2>1
<1>7. ASSUME NEW v \in Variable
      PROVE  \E text \in Text \cup {Unset} : former'[v] = Parsed(v, text)
    BY <1>1, <1>3, <1>4 DEF ParsedAll
<1>8. misread' \subseteq Variable
    BY <1>2
<1>9. TypeOK'
    BY <1>1, <1>6, <1>8 DEF IInv, TypeOK
<1>10. StreamsRun' /\ LastWhole' /\ Loaded' /\ CoreFirst' /\ OneEnvironment'
    BY <1>1 DEF IInv, StreamsRun, LastWhole, Loaded, CoreFirst, OneEnvironment
<1>11. Reproduced'
    BY <1>1, <1>3, <1>6, <1>7 DEF Reproduced
<1> QED
    BY <1>9, <1>10, <1>11 DEF IInv

LEMMA Invariance == Spec => []IInv
<1>1. IInv /\ [Next]_vars => IInv'
    <2> SUFFICES ASSUME IInv, [Next]_vars PROVE IInv'
        OBVIOUS
    <2>1. CASE UNCHANGED vars
        <3>1. Filled(shell)' = Filled(shell)
            BY <2>1 DEF vars, Filled
        <3>2. TypeOK' /\ StreamsRun' /\ LastWhole' /\ Loaded' /\ CoreFirst'
            BY <2>1, <3>1 DEF vars, IInv, TypeOK, StreamsRun, LastWhole, Loaded, CoreFirst
        <3>3. OneEnvironment' /\ Reproduced'
            BY <2>1, <3>1 DEF vars, IInv, OneEnvironment, Reproduced
        <3> QED
            BY <3>2, <3>3 DEF IInv
    <2> QED
        BY <2>1, StartKeeps, OpenKeeps, WriteKeeps, StopKeeps, SourceKeeps DEF Next
<1> QED
    BY <1>1, Initially, PTL DEF Spec

(***************************************************************************)
(* Theorems.                                                               *)
(***************************************************************************)

\* The state is what it is declared to be; no file is longer than the longest
\* template, whichever streams write it over.
THEOREM TypeCorrect == Spec => []TypeOK
<1>1. IInv => TypeOK
    BY DEF IInv
<1> QED
    BY <1>1, Invariance, PTL

\* Once all streams are done the template begins with what the last of them wrote, and
\* is exactly that if it was one of the user services (environment.service.ts:213-216).
THEOREM TemplateWhole == Spec => []EndsWhole
<1>1. IInv => EndsWhole
    <2> SUFFICES ASSUME IInv, \A w \in Writer : stream[w] = "closed"
                 PROVE  /\ IsPrefix(Lines(last, environment), file)
                        /\ last # Core => file = Lines(last, environment)
        BY DEF EndsWhole
    <2>1. Core \in Writer
        BY DEF Writer
    <2> QED
        BY <2>1 DEF IInv, LastWhole
<1> QED
    BY <1>1, Invariance, PTL

\* A start from a template, complete or not and with any .env, runs with what .env gives
\* by itself, or with the value the template was written from in every variable that a
\* template can carry and no cut line has set, save those of the user database that
\* .env supplies (environment.service.ts:8, 193-216).
THEOREM StartsFromTemplate == Spec => []StartsAlike
<1>1. IInv => StartsAlike
    <2> SUFFICES ASSUME IInv, phase = "running", sourced
                 PROVE  \/ \A v \in Variable : environment[v] = Parsed(v, dotenv[v])
                        \/ \A v \in Carried(former) \ misread :
                              \/ environment[v] = former[v]
                              \/ v \in ToSet(OfUserDb) /\ environment[v] = Parsed(v, dotenv[v])
        BY DEF StartsAlike
    <2>1. environment = ParsedAll(Filled(shell))
        BY DEF IInv, Loaded
    <2>2. shell \in [Variable -> Text \cup {Unset}]
        BY DEF IInv, TypeOK
    <2>3. /\ \A v \in Variable : \E text \in Text \cup {Unset} : former[v] = Parsed(v, text)
          /\ Admissible(former) /\ From(shell, former, misread)
        BY DEF IInv, Reproduced
    <2> QED
        BY <2>1, <2>2, <2>3, FromTemplate
<1> QED
    BY <1>1, Invariance, PTL
=============================================================================
