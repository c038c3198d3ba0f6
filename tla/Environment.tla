----------------------------- MODULE Environment -----------------------------
(***************************************************************************)
(* gpgrt_getenv and gpgrt_setenv of src/sysutils.c under Windows, which has one     *)
(* environment of the system and one of the C library, while other threads use them. *)
(***************************************************************************)
EXTENDS Integers, Sequences, SequencesExt

CONSTANTS
  EnvVar,     \* the names of variables
  EnvValue,   \* the values, by their lengths
  Unset       \* no value

ASSUME EnvAssumption ==
  /\ EnvValue \subseteq Nat /\ Unset \notin EnvValue

VARIABLES
  sysenv,  \* the environment of the system: [EnvVar -> value or Unset]
  crtenv,  \* the one of the C library
  getting, \* a call of getenv: its variable, its buffer, and the values since its start
  setting  \* a call of setenv between its two environments, and what it returned

envVars == <<sysenv, crtenv, getting, setting>>

EnvName == EnvVar \cup {"bad"}  \* "bad" is NULL, empty, or has an equals sign
NoGet == [at |-> "ready", name |-> "bad", size |-> 0, seen |-> {}, code |-> "none", value |-> Unset]
NoSet == [at |-> "ready", name |-> "bad", value |-> Unset, code |-> "none", alone |-> TRUE]

-----------------------------------------------------------------------------
(***************************************************************************)
(* _gpgrt_getenv: GetEnvironmentVariable tells the room needed, with the NUL, and   *)
(* then the length; in between the variable may have changed.                      *)
(***************************************************************************)
Needed(v) == v + 1
Gets(code, v) == getting' = [getting EXCEPT !.at = "ready", !.code = code, !.value = v]
GetStart(name) ==
  /\ getting.at = "ready"
  /\ getting' =
       IF name = "bad" THEN [NoGet EXCEPT !.code = "EINVAL"]
       ELSE IF sysenv[name] = Unset THEN [NoGet EXCEPT !.name = name, !.seen = {Unset}, !.code = "unset"]
       ELSE [NoGet EXCEPT !.at = "again", !.name = name, !.seen = {sysenv[name]},
                          !.size = Needed(sysenv[name])]
  /\ UNCHANGED <<sysenv, crtenv, setting>>
\* A buffer that is too small is left as malloc gave it.
Written(v, size) == IF Needed(v) > size THEN -1 ELSE v
\* (A wrong version, for a check of the property: it takes a value one too long for read.)
TooLongByOne(v, size) == Needed(v) > size + 1
\* A value that is as long as the buffer or longer is asked for again.
TooLong(v, size) == Needed(v) > size
GetAgain ==
  /\ getting.at = "again"
  /\ LET v == sysenv[getting.name]
     IN \/ Gets("ENOMEM", Unset)
        \/ v = Unset /\ Gets("unset", Unset)
        \/ v # Unset /\ TooLong(v, getting.size) /\ getting' = [getting EXCEPT !.size = Needed(v)]
        \* The length 0 of an empty value is taken for an error.
        \/ v # Unset /\ ~TooLong(v, getting.size) /\ IF v = 0 THEN Gets("EIO", Unset) ELSE Gets("ok", Written(v, getting.size))
  /\ UNCHANGED <<sysenv, crtenv, setting>>

-----------------------------------------------------------------------------
(***************************************************************************)
(* _gpgrt_setenv: the system's environment first, then the C library's.             *)
(***************************************************************************)
Sees(name, v) == IF getting.at = "again" /\ getting.name = name
                 THEN [getting EXCEPT !.seen = @ \cup {v}] ELSE getting
SetSystem(name, v) ==
  /\ sysenv' = [sysenv EXCEPT ![name] = v]
  /\ getting' = Sees(name, v)
SetReturns(code) == setting' = [setting EXCEPT !.at = "ready", !.code = code]

SetStart(name, value, overwrite) ==
  /\ setting.at = "ready"
  /\ IF name = "bad"
     THEN setting' = [NoSet EXCEPT !.code = "EINVAL"] /\ UNCHANGED <<sysenv, getting>>
     ELSE LET exists == sysenv[name] \notin {Unset, 0}  \* an empty value has no length
              removes == value = Unset /\ overwrite
          IN \/ /\ removes \/ ~exists \/ overwrite
                /\ setting' = [NoSet EXCEPT !.name = name, !.value = value, !.code = "EINVAL"]
                /\ UNCHANGED <<sysenv, getting>>
             \/ /\ setting' = [at |-> "libc", name |-> name, value |-> value,
                               code |-> IF overwrite THEN "overwrite" ELSE "keep", alone |-> TRUE]
                /\ IF removes \/ ~exists \/ overwrite
                   THEN SetSystem(name, value)
                   ELSE UNCHANGED <<sysenv, getting>>
  /\ UNCHANGED crtenv
\* The C library's environment keeps a value that must not be overwritten; putenv with an
\* empty value may remove the variable.
KeepsLibc(code, old) == code = "keep" /\ old # Unset
SetLibc ==
  /\ setting.at = "libc"
  /\ LET old == crtenv[setting.name]
         changes == ~KeepsLibc(setting.code, old) /\ (setting.value # Unset \/ old # Unset)
     IN \/ /\ setting' = [setting EXCEPT !.at = "ready",
                                          !.code = IF @ = "overwrite" THEN "set" ELSE "kept"]
           /\ IF ~changes THEN UNCHANGED crtenv
              ELSE \E v \in {setting.value, IF setting.value = 0 THEN Unset ELSE setting.value} :
                     crtenv' = [crtenv EXCEPT ![setting.name] = v]
        \/ changes /\ SetReturns("failed") /\ UNCHANGED crtenv
  /\ UNCHANGED <<sysenv, getting>>

\* SetEnvironmentVariable, by other code of the program.
OtherSets(name, v) ==
  /\ SetSystem(name, v)
  /\ setting' = [setting EXCEPT !.alone = @ /\ name # setting.name]
  /\ UNCHANGED crtenv

EnvInit ==
  /\ sysenv = [n \in EnvVar |-> Unset] /\ crtenv = [n \in EnvVar |-> Unset]
  /\ getting = NoGet /\ setting = NoSet
EnvNext ==
  \/ \E n \in EnvName : GetStart(n) \/ \E v \in EnvValue \cup {Unset}, o \in BOOLEAN : SetStart(n, v, o)
  \/ GetAgain \/ SetLibc
  \/ \E n \in EnvVar, v \in EnvValue \cup {Unset} : OtherSets(n, v)

EnvSpec == EnvInit /\ [][EnvNext]_envVars

-----------------------------------------------------------------------------
\* What getenv returns is a whole value that the variable had during the call, and it says
\* that there is none only if there was none; an overwriting setenv that succeeds leaves
\* both environments with its value, if nobody else set the variable meanwhile.
EnvironmentKept ==
  /\ getting.code = "ok" => getting.value \in getting.seen
  /\ getting.code = "unset" => Unset \in getting.seen
  /\ setting.code = "set" /\ setting.alone /\ setting.value # 0 =>
       sysenv[setting.name] = setting.value /\ crtenv[setting.name] = setting.value
=============================================================================
