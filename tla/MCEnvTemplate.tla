---------------------------- MODULE MCEnvTemplate ----------------------------
(***************************************************************************)
(* One variable of each kind, in every state a rule tells apart: with a      *)
(* default, with a default that a shell splits, flag, text of the user       *)
(* database, required number, optional text, and one whose name ends in      *)
(* that of another.  There is no .env, one with a part of the variables and *)
(* one with all that are required.                                         *)
(***************************************************************************)
EXTENDS EnvTemplate, TLC

MCDefaulted == <<"APP_BASE_URL", "INSTANCE_ID", "LOG_DEBUG_MODE">>
MCOfUserDb  == <<"DB_USER_HOST", "DB_USER_PORT">>
MCOthers    == <<"PORT", "DB_LOG_PORT", "REDIS_USERNAME">>

MCType == [v \in Variable |-> CASE v = "LOG_DEBUG_MODE" -> "boolean"
                               [] v \in {"PORT", "DB_USER_PORT", "DB_LOG_PORT"} -> "number"
                               [] OTHER -> "string"]
MCDefault == "APP_BASE_URL" :> "api/v1" @@ "INSTANCE_ID" :> "two words"
             @@ "LOG_DEBUG_MODE" :> "false"

MCText == {"undefined", "two words", "two", "api/v1", "", "0", "1", "12", "012", "word", "other",
           "true", "false", "TRUE", "a PORT=0", "a"}

MCShells ==
    {"APP_BASE_URL" :> base @@ "INSTANCE_ID" :> Unset @@ "LOG_DEBUG_MODE" :> debug
     @@ "DB_USER_HOST" :> host @@ "DB_USER_PORT" :> userPort @@ "PORT" :> port
     @@ "DB_LOG_PORT" :> logPort @@ "REDIS_USERNAME" :> name :
        base \in {Unset, "word"}, debug \in {Unset, "TRUE"}, host \in {Unset, "", "word"},
        userPort \in {Unset, "12"}, port \in {Unset, "012", "word"}, logPort \in {Unset, ""},
        name \in {Unset, "word", "a PORT=0"}}

MCNumber == [t \in Text |-> CASE t \in {"", "0"} -> "0"
                              [] t = "1" -> "1"
                              [] t \in {"12", "012"} -> "12"
                              [] OTHER -> NaN]

MCNoDotEnv == [v \in Variable |-> Unset]

MCDotEnvs ==
    {MCNoDotEnv,
     [MCNoDotEnv EXCEPT !["APP_BASE_URL"] = "other", !["PORT"] = "0"],
     [v \in Variable |-> CASE Type[v] = "boolean" -> "true"
                          [] Type[v] = "number"  -> "0"
                          [] OTHER               -> "other"]}

\* It ends at the first space; what follows may set another variable.
MCExported == [t \in Text |-> CASE t = "two words" -> "two" [] t = "a PORT=0" -> "a" [] OTHER -> t]

MCAlso == [t \in Text |-> IF t = "a PORT=0" THEN [MCNoDotEnv EXCEPT !["PORT"] = "0"] ELSE MCNoDotEnv]

MCReadAs == [v \in Variable |-> IF v \in {"DB_USER_PORT", "DB_LOG_PORT"} THEN {"PORT"} ELSE {}]
=============================================================================
