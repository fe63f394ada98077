------------------------------ MODULE MCStartUp -------------------------------
EXTENDS StartUp

\* By the hash of the name that the code computes.
HashOrder ==
    <<"bSafeExit", "bAudioAllocator", "bMemoryManager", "bNoPoisonConfirmMessage",
      "iMaxStdio", "bWithoutPrefixNL", "bNoRepairItemConfirmMessage",
      "bNoLoadGameConfirmMessage", "bNoTradeItemConfirmMessage",
      "bNoRechargeItemConfirmMessage", "bFFXQueryCrash", "bNoTradeSpellConfirmMessage",
      "bThreads",
      "bNoScriptMessageBox", "bFriendship">>

Absent == [type |-> "absent", number |-> 0]
Number(n) == [type |-> "integer", number |-> n]
Truth(n) == [type |-> "boolean", number |-> n]

\* What a section may contain: records of the options that are in it.
Tables(s) ==
    CASE s = "Patches" ->
            {[bThreads |-> Truth(0), bAudioAllocator |-> a, iMaxStdio |-> n] :
                a \in {Absent, Truth(0)}, n \in {Truth(0), Number(3), Number(9), Number(17)}}
      [] s = "Fixes" ->
            {[bFFXQueryCrash |-> Truth(0), bWithoutPrefixNL |-> n] : n \in {Truth(0), Number(0)}}
      [] s = "Gameplay" -> {[bNoPoisonConfirmMessage |-> Truth(1)]}
      [] s = "Jokes" -> {[bFriendship |-> Truth(1)]}

Contents(s) ==
    {[section |-> "table", items |-> t] : t \in Tables(s)} \cup
    {[section |-> k, items |-> <<>>] :
        k \in {"absent", "other"}}

FileOf(c) ==
    [ok |-> TRUE, section |-> [s \in Sections |-> c[s].section],
     item |-> [o \in Options |->
                 LET t == c[SectionOf[o]].items
                 IN IF o \in DOMAIN t THEN t[o] ELSE Absent]]

SomeFiles ==
    {FileOf([s \in Sections |-> CASE s = "Patches" -> a [] s = "Fixes" -> b
                                  [] s = "Gameplay" -> c [] OTHER -> d]) :
        a \in Contents("Patches"), b \in Contents("Fixes"),
        c \in Contents("Gameplay"), d \in Contents("Jokes")}
    \cup {Unread}

\* None, a complete one, one without some addresses, a short one; of the second and
\* the third some functions cannot be written to.
SomeLibraries ==
    {[count |-> 0, missing |-> {}, sealed |-> {}],
     [count |-> 500000, missing |-> {}, sealed |-> {407438, 399134}],
     [count |-> 500000, missing |-> {308068, 399133, 406910, 407436}, sealed |-> {406775}],
     [count |-> 406800, missing |-> {}, sealed |-> {}]}
===============================================================================
