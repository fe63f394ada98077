------------------------------- MODULE Settings -------------------------------
(***************************************************************************)
(* The settings of Turpentine (core/TSettings.cpp, core/TModSettings.cpp): *)
(* the collection that dllmain.cpp fills, and the loading of their values  *)
(* from Turpentine.toml.                                                   *)
(*                                                                         *)
(* A Boolean is 0 or 1.  What the parser makes of the file is input: which *)
(* sections there are, whether they are tables, and what stands for each   *)
(* option.  Of the types of a setting those that Turpentine has are        *)
(* modelled, Booleans and 32-bit numbers.                                  *)
(***************************************************************************)
EXTENDS Integers, Sequences

CONSTANTS
    Order,      \* the options, each of them once, by increasing hash of the name
    Files,      \* what the settings file may contain
    IntWrap,    \* numbers wrap around here (2^32)
    DefaultStdio \* the value iMaxStdio starts with (2048)

Sections == {"Patches", "Fixes", "Gameplay", "Jokes"}

\* The section of a setting is what its name has behind the colon.
OptionsOf(section) ==
    CASE section = "Patches" -> {"bThreads", "bMemoryManager", "bAudioAllocator", "iMaxStdio"}
      [] section = "Fixes" -> {"bSafeExit", "bFFXQueryCrash", "bWithoutPrefixNL"}
      [] section = "Gameplay" ->
            {"bNoScriptMessageBox", "bNoPoisonConfirmMessage",
             "bNoTradeSpellConfirmMessage", "bNoTradeItemConfirmMessage",
             "bNoRechargeItemConfirmMessage", "bNoRepairItemConfirmMessage",
             "bNoLoadGameConfirmMessage"}
      [] section = "Jokes" -> {"bFriendship"}

Options == UNION {OptionsOf(s) : s \in Sections}
SectionOf == [o \in Options |-> CHOOSE s \in Sections : o \in OptionsOf(s)]

\* The first letter of the name says which type the value has.
TypeOf(o) == IF o = "iMaxStdio" THEN "integer" ELSE "boolean"

Default(o) ==
    CASE o = "iMaxStdio" -> DefaultStdio
      [] o \in OptionsOf("Gameplay") \cup OptionsOf("Jokes") -> 0
      [] OTHER -> 1

\* What stands for an option in the file; "other" is a string, an array, ...
Items == [type : {"absent", "boolean", "integer", "other"}, number : Nat]

\* `ok': the file is there and can be parsed.
File == [ok : BOOLEAN, section : [Sections -> {"absent", "table", "other"}],
         item : [Options -> Items]]

Unread ==
    [ok |-> FALSE, section |-> [s \in Sections |-> "absent"],
     item |-> [o \in Options |-> [type |-> "absent", number |-> 0]]]

ASSUME SettingsAssumption ==
    /\ Order \in Seq(Options)
    /\ \A o \in Options : \E i \in 1 .. Len(Order) : Order[i] = o
    /\ \A i, j \in 1 .. Len(Order) : Order[i] = Order[j] => i = j
    /\ IntWrap \in Nat \ {0} /\ DefaultStdio \in Nat
    /\ \A f \in Files :
        /\ f \in File
        /\ \A o \in Options :
            f.item[o].type # "absent" => f.section[SectionOf[o]] = "table"

VARIABLES
    listed,     \* the settings in the collection
    garbage,    \* the name whose hash is in the entry behind the last, once that is known
    file,       \* what the file contains; before that is known, nothing
    value,      \* the values of the settings
    next,       \* the place in Order that loading has come to
    loading     \* "no", "going on", "stopped" or "complete"

settingsVars == <<listed, garbage, file, value, next, loading>>

-----------------------------------------------------------------------------
SettingsInit ==
    /\ listed = {} /\ garbage = "unknown"
    /\ file = Unread
    /\ value = [o \in Options |-> Default(o)]
    /\ next = 1
    /\ loading = "no"

Rank == [o \in Options |-> CHOOSE i \in 1 .. Len(Order) : Order[i] = o]

\* Nothing in the collection has a hash as large: lower_bound returns end().
BehindAll(o) == \A l \in listed : Rank[l] < Rank[o]

\* Add reads the entry behind the last one, which nobody has written: it may
\* have the same hash.  Then the setting is refused.  It is the same memory each
\* time, so that this happens for one name at most.
Add(o) ==
    /\ \/ listed' = listed \cup {o} /\ UNCHANGED garbage
       \/ /\ BehindAll(o) /\ garbage = "unknown"
          /\ garbage' = o /\ UNCHANGED listed
    /\ UNCHANGED <<file, value, next, loading>>

\* LoadFromFile as far as the loop over the collection.
OpenFile ==
    /\ loading = "no"
    /\ file' \in Files
    /\ loading' = IF file'.ok THEN "going on" ELSE "stopped"
    /\ UNCHANGED <<listed, garbage, value, next>>

\* A number of the file becomes a signed one of 32 bits.
Signed(n) == IF n % IntWrap < IntWrap \div 2 THEN n % IntWrap ELSE (n % IntWrap) - IntWrap

Loaded(item) == IF item.type = "integer" THEN Signed(item.number) ELSE item.number

BugLoadOption(o) ==
    IF file.section[SectionOf[o]] = "other"
    THEN loading' = "stopped" /\ UNCHANGED value
    ELSE /\ value' = IF file.item[o].type # "absent"
                     THEN [value EXCEPT ![o] = Loaded(file.item[o])]
                     ELSE value
         /\ UNCHANGED loading

\* One setting: a section that is no table ends the loading, an option that is
\* not there or has another type keeps its value.
LoadOption(o) ==
    IF file.section[SectionOf[o]] = "other"
    THEN loading' = "stopped" /\ UNCHANGED value
    ELSE /\ value' = IF file.item[o].type = TypeOf(o)
                     THEN [value EXCEPT ![o] = Loaded(file.item[o])]
                     ELSE value
         /\ UNCHANGED loading

\* The loop goes through the collection by increasing hash.
LoadNext ==
    /\ loading = "going on" /\ next <= Len(Order)
    /\ next' = next + 1
    /\ IF Order[next] \in listed
       THEN LoadOption(Order[next])
       ELSE UNCHANGED <<value, loading>>
    /\ UNCHANGED <<listed, garbage, file>>

LoadEnds ==
    /\ loading = "going on" /\ next > Len(Order)
    /\ loading' = "complete"
    /\ UNCHANGED <<listed, garbage, file, value, next>>

-----------------------------------------------------------------------------
(* Properties *)

\* What the file says of a setting, whatever the code does with it: the value that
\* stands there, if it has the setting's type, and else its default.
FileSays(o) ==
    IF file.ok /\ file.item[o].type = TypeOf(o) THEN Loaded(file.item[o]) ELSE Default(o)

SettingsTypeOK ==
    /\ listed \subseteq Options /\ garbage \in Options \cup {"unknown"}
    /\ file \in File
    /\ value \in [Options -> Int]
    /\ next \in 1 .. Len(Order) + 1
    /\ loading \in {"no", "going on", "stopped", "complete"}
===============================================================================
