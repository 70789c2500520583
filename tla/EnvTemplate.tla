----------------------------- MODULE EnvTemplate -----------------------------
(***************************************************************************)
(* The environment of the service: read from process.env, which dotenv     *)
(* fills from the file .env, and validated by each CoreEnvironmentService, *)
(* three of which are built while the modules are loaded                   *)
(* (CoreEnvironmentProvider, RepaymentEnvironmentProvider,                 *)
(* CoreEnvironmentModule.create).  Outside production each writes the same *)
(* file env-template.sh through a stream of its own, whose opening and     *)
(* writing run in the thread pool and interleave.  The file is meant to be *)
(* sourced by a shell that starts the service again.                       *)
(***************************************************************************)
EXTENDS Integers, Sequences, SequencesExt

CONSTANTS
    Defaulted,   \* the variables with a default, in the order of CoreEnvironment
    OfUserDb,    \* those of UserDBEnvironmentClass
    Others,      \* the other variables of CoreEnvironment
    Type,        \* of each variable: "string", "number" or "boolean"
    Default,     \* of each of Defaulted
    Optional,    \* the variables with @IsOptional
    NotEmpty,    \* those with @IsNotEmpty
    Text,        \* what a value can be written as, in the shell or in the template
    Shells,      \* what the first shell can have
    Truths,      \* the texts that are "true" in lower case
    Number,      \* of a text
    DotEnvs,     \* what .env can have
    Exported,    \* what a shell makes of NAME in `export NAME=text`
    Also,        \* the variables such a text sets besides: 'a PORT=1', 'a;export PORT=1'
    ReadAs       \* the variables a line of a variable can set when its beginning is cut off

VARIABLES
    production,   \* NODE_ENV is production
    dotenv,       \* the variables in .env
    shell,        \* those of the shell that starts the process
    phase,        \* of the process
    environment,  \* ENVIRONMENT of the service
    former,       \* the one that the sourced template was written from
    sourced,      \* the shell has its variables from the template alone
    misread,      \* the variables a cut line of it has set
    stream,       \* state of each writer's stream
    last,         \* the writer that has written last
    file          \* env-template.sh

vars == <<production, dotenv, shell, phase, environment, former, sourced, misread, stream, last, file>>

(***************************************************************************)
(* The variables, in the order of Object.entries: those with a default      *)
(* first, then the exposed ones of UserDBEnvironmentClass, then the rest of *)
(* CoreEnvironment.                                                        *)
(***************************************************************************)

CoreKeys == Defaulted \o Others
UserKeys == Defaulted \o OfUserDb \o Others
Variable == ToSet(UserKeys)

\* A value is denoted by its text; Undefined and NaN are no texts, and neither is
\* what stands for a variable that is not exported.
Unset     == "unset"
Undefined == "no value"
NaN       == "NaN"

DefaultOf(v) == IF v \in ToSet(Defaulted) THEN Default[v] ELSE Undefined

stringToBoolean(text) == IF text \in Truths THEN "true" ELSE "false"

\* The value of plainToClass over the defaults overridden by process.env.
Parsed(v, text) ==
    IF text = Unset
    THEN DefaultOf(v)
    ELSE CASE Type[v] = "boolean" -> stringToBoolean(text)
           [] Type[v] = "number"  -> Number[text]
           [] OTHER                -> text

\* dotenv.config(): .env gives the variables that the shell has not, even empty.
Filled(texts) == [v \in Variable |-> IF texts[v] = Unset THEN dotenv[v] ELSE texts[v]]

\* The decorators: IsNumber rejects NaN, everything but @IsOptional must have a value.
Valid(v, value) ==
    /\ value # NaN
    /\ value = Undefined => v \in Optional
    /\ value = "" => v \notin NotEmpty

\* Variant: a flag is written as a digit, +value.
FormatFlagAsDigit(value) ==
    CASE value = Undefined -> "undefined"
      [] value = "true"    -> "1"
      [] OTHER             -> value

\* What the template says of a value: `${value}`.
Format(value) == IF value = Undefined THEN "undefined" ELSE value

ASSUME VariablesAssumption ==
    /\ Defaulted \in Seq(STRING) /\ OfUserDb \in Seq(STRING) /\ Others \in Seq(STRING)
    /\ Type \in [Variable -> {"string", "number", "boolean"}]

\* A default is a value of the type of its variable.
ASSUME DefaultsAssumption ==
    \A v \in ToSet(Defaulted) : Default[v] \in Text /\ Parsed(v, Default[v]) = Default[v]

\* A number is written as a text that is read as the same number.
ASSUME TextsAssumption ==
    /\ {"undefined", "true", "false"} \subseteq Text
    /\ Text \cap {Unset, Undefined, NaN} = {}
    /\ Shells \subseteq [Variable -> Text \cup {Unset}]
    /\ "true" \in Truths /\ "false" \notin Truths
    /\ Number \in [Text -> Text \cup {NaN}]
    /\ \A t \in Text : Number[t] # NaN => Number[Number[t]] = Number[t]
    /\ DotEnvs \subseteq [Variable -> Text \cup {Unset}]
    /\ Exported \in [Text -> Text]
    /\ Also \in [Text -> [Variable -> Text \cup {Unset}]]
    /\ ReadAs \in [Variable -> SUBSET ToSet(CoreKeys)]

(***************************************************************************)
(* The writers.                                                            *)
(***************************************************************************)

Core == "CoreEnvironmentProvider"
Writer == {Core, "RepaymentEnvironmentProvider", "CoreEnvironmentModule"}

KeysOf(w) == IF w = Core THEN CoreKeys ELSE UserKeys

Lines(w, env) ==
    [i \in DOMAIN KeysOf(w) |->
        [name |-> KeysOf(w)[i], text |-> Format(env[KeysOf(w)[i]])]]

\* Variant: the streams append (flag "a").
WrittenAtEnd(old, new) == old \o new

\* A stream writes from its own position, which is 0, in one writev: what the
\* file has beyond that stays.  (All lines count as equally long here: the first of
\* those that stay is cut when it is read, see Readings.)
Written(old, new) == new \o SubSeq(old, Len(new) + 1, Len(old))

NoEnvironment == [v \in Variable |-> Unset]

Line == [name : Variable, text : Text]

TypeOK ==
    /\ production \in BOOLEAN /\ sourced \in BOOLEAN
    /\ dotenv \in [Variable -> Text \cup {Unset}]
    /\ shell \in [Variable -> Text \cup {Unset}]
    /\ misread \subseteq Variable
    /\ phase \in {"idle", "running", "failed"}
    /\ environment \in [Variable -> Text \cup {Undefined, Unset}]
    /\ former \in [Variable -> Text \cup {Undefined, Unset}]
    /\ stream \in [Writer -> {"none", "opening", "open", "closed"}]
    /\ last \in Writer \cup {"none"}
    /\ file \in Seq(Line) /\ Len(file) <= Len(UserKeys)

Init ==
    /\ production \in BOOLEAN
    /\ dotenv \in DotEnvs
    /\ shell \in Shells
    /\ phase = "idle"
    /\ environment = NoEnvironment
    /\ former = NoEnvironment
    /\ sourced = FALSE
    /\ misread = {}
    /\ stream = [w \in Writer |-> "none"]
    /\ last = "none"
    /\ file = <<>>

(***************************************************************************)
(* Actions.                                                                *)
(***************************************************************************)

\* The modules are loaded: the three services are built in one go.  One that
\* finds errors throws and the process ends before any stream has opened the file.
Start ==
    LET parsed == [v \in Variable |-> Parsed(v, Filled(shell)[v])]
    IN  /\ phase = "idle"
        /\ IF \A v \in Variable : Valid(v, parsed[v])
           THEN /\ phase' = "running"
                /\ environment' = parsed
                /\ stream' = [w \in Writer |-> IF production THEN "none" ELSE "opening"]
           ELSE phase' = "failed" /\ UNCHANGED <<environment, stream>>
        /\ UNCHANGED <<production, dotenv, shell, former, sourced, misread, last, file>>

\* The file is opened with flag "w", which truncates it.
Open(w) ==
    /\ stream[w] = "opening"
    /\ stream' = [stream EXCEPT ![w] = "open"]
    /\ file' = <<>>
    /\ UNCHANGED <<production, dotenv, shell, phase, environment, former, sourced, misread, last>>

\* All lines were handed to the stream before it was open.
Write(w) ==
    /\ stream[w] = "open"
    /\ stream' = [stream EXCEPT ![w] = "closed"]
    /\ file' = Written(file, Lines(w, environment))
    /\ last' = w
    /\ UNCHANGED <<production, dotenv, shell, phase, environment, former, sourced, misread>>

\* The process ends, maybe before its streams have done their work.
Stop ==
    /\ phase = "running"
    /\ phase' = "idle"
    /\ stream' = [w \in Writer |-> "none"]
    /\ UNCHANGED <<production, dotenv, shell, environment, former, sourced, misread, last, file>>

\* The file as a shell reads it.  When the core service has written last, the first
\* line it has left is cut somewhere: it sets nothing, its own variable or, like the
\* PORT in DB_LOG_PORT, another one, which is exported above.
Readings ==
    LET cut == Len(CoreKeys) + 1
    IN  IF last = Core /\ Len(file) >= cut
        THEN {[file EXCEPT ![cut].name = name] : name \in {""} \cup ReadAs[file[cut].name]}
        ELSE {file}

\* The lines that set a variable, and what the last of them makes of it.
Setting(lines, v) == {i \in DOMAIN lines : lines[i].name = v \/ Also[lines[i].text][v] # Unset}

SetBy(line, v) == IF Also[line.text][v] # Unset THEN Also[line.text][v] ELSE Exported[line.text]

\* What a new shell has from sourcing a file.
SourcedShell(lines) ==
    [v \in Variable |->
        IF Setting(lines, v) = {}
        THEN Unset
        ELSE SetBy(lines[CHOOSE i \in Setting(lines, v) : \A j \in Setting(lines, v) : j <= i], v)]

\* A new shell sources the template, whatever is in it.
SourceTemplate ==
    /\ phase = "idle"
    /\ ~sourced
    /\ environment # NoEnvironment
    /\ sourced' = TRUE
    /\ former' = environment
    /\ \E lines \in Readings :
          /\ shell' = SourcedShell(lines)
          /\ misread' = {v \in Variable : \E i \in DOMAIN file : lines[i].name = v /\ file[i].name # v}
    /\ UNCHANGED <<production, dotenv, phase, environment, stream, last, file>>

Next ==
    \/ Start \/ Stop \/ SourceTemplate
    \/ \E w \in Writer : Open(w) \/ Write(w)

Spec == Init /\ [][Next]_vars

(***************************************************************************)
(* Properties.                                                             *)
(***************************************************************************)

\* What a template can carry: a value that is there and that a shell does not split, of
\* a variable that no other value sets besides.
Carried(env) ==
    {v \in Variable : /\ env[v] # Undefined /\ Exported[env[v]] = env[v]
                      /\ \A u \in Variable : Also[Format(env[u])][v] = Unset}

\* A start from a template gives what .env gives by itself, or has the environment the
\* template was written from, in every variable a template can carry, but for one that a
\* cut line sets and those of the user database that .env supplies: a file left empty by
\* a stopped process, written by the core service last or overwritten in part never
\* passes validation with any other value (CoreEnvironmentService).
StartsAlike ==
    phase = "running" /\ sourced =>
        \/ \A v \in Variable : environment[v] = Parsed(v, dotenv[v])
        \/ \A v \in Carried(former) \ misread :
              \/ environment[v] = former[v]
              \/ v \in ToSet(OfUserDb) /\ environment[v] = Parsed(v, dotenv[v])

\* However the three streams interleave, the file ends up beginning with all that
\* the last of them had to write, and is the whole of it if that was a service of
\* UserEnvironment.
EndsWhole ==
    (\A w \in Writer : stream[w] = "closed") =>
        /\ IsPrefix(Lines(last, environment), file)
        /\ last # Core => file = Lines(last, environment)

\* environment.service.ts:212, "Output environment template": starting from it
\* gives the same environment, or none.
TemplateReproduces ==
    phase = "running" /\ sourced => environment = former
=============================================================================
