------------------------------- MODULE StartUp --------------------------------
(***************************************************************************)
(* The start of Turpentine (dllmain.cpp, Start): look at the game, open    *)
(* the address library, list and load the settings, and install what they *)
(* ask for; with the library of addresses (core/TRelocation.cpp) and the   *)
(* places in the game's code that each patch writes to (core/T*.cpp).      *)
(*                                                                         *)
(* The bytes that are written are left out: a place is patched or not.     *)
(* The calls that write through an address (Patch, PatchNop) do nothing,   *)
(* and say nothing, when the page cannot be made writable, which is always *)
(* so near address 0.  The detours are a library that is not in the        *)
(* repository: taken to do the same, but that DetourFunction may fault     *)
(* near address 0.                                                         *)
(***************************************************************************)
EXTENDS Settings, FiniteSetsExt

CONSTANTS
    Libraries,      \* what the address library may be
    LowStdio, HighStdio, \* the limits of MaxStdio (512, 8192)
    SystemStdio     \* the runtime's own number of files (512)

\* The table of addresses: its length, and the identifiers it has no address
\* for.  Of length 0 when there is no file or an empty one.  With it, the
\* identifiers whose functions are on pages that cannot be made writable.
Library == [count : Nat, missing : SUBSET Nat, sealed : SUBSET Nat]

ASSUME StartUpAssumption ==
    /\ \A l \in Libraries :
          l.count \in Nat /\ l.missing \subseteq Nat /\ l.sealed \subseteq Nat
    /\ {LowStdio, HighStdio, SystemStdio} \subseteq Nat /\ LowStdio <= HighStdio

VARIABLES
    pc,         \* what Start does: "checking", "listing", "loading", "patching"; or
                \* how it ended: "ended", "refused", "crashed"
    at,         \* the place it has come to in AddOrder or InstallOrder
    library,    \* the address library of this game
    open,       \* siddb is not null
    patched,    \* the identifiers of functions of the game that have been patched
    installed,  \* the patches that need no identifier, and are installed
    unfit,      \* the patches that do not fit the game, or could not be installed
    spoiled,    \* something was written to an arbitrary address
    stdio       \* how many files the runtime opens

patchVars == <<library, patched, installed, unfit, spoiled, stdio>>
vars == <<settingsVars, pc, at, open, patchVars>>

-----------------------------------------------------------------------------
(* The tables of the code *)

\* The settings in the order in which they are listed.  One is missing.
AddOrder ==
    <<"bThreads", "bMemoryManager", "bAudioAllocator", "iMaxStdio", "bSafeExit",
      "bFriendship", "bNoScriptMessageBox", "bWithoutPrefixNL",
      "bNoPoisonConfirmMessage", "bNoTradeSpellConfirmMessage",
      "bNoTradeItemConfirmMessage", "bNoRechargeItemConfirmMessage",
      "bNoRepairItemConfirmMessage", "bNoLoadGameConfirmMessage">>

InstallOrder ==
    <<"DataHandler", "bThreads", "Memory", "iMaxStdio", "bNoScriptMessageBox",
      "bNoPoisonConfirmMessage", "bNoTradeSpellConfirmMessage",
      "bNoTradeItemConfirmMessage", "bNoRechargeItemConfirmMessage",
      "bNoRepairItemConfirmMessage", "bNoLoadGameConfirmMessage",
      "bSafeExit", "bFFXQueryCrash", "bWithoutPrefixNL", "bFriendship">>

\* The functions a patch asks the library for, and writes to.
PlacesOf(p) ==
    CASE p = "DataHandler" -> {407436, 407438}
      [] p = "bAudioAllocator" -> {399128, 399132, 399133, 399134, 399135}
      [] p = "bNoScriptMessageBox" -> {421458}
      [] p = "bNoPoisonConfirmMessage" -> {406775, 406910}
      [] p = "bNoTradeSpellConfirmMessage" -> {410718, 411430, 411431}
      [] p = "bNoTradeItemConfirmMessage" -> {410449, 410475}
      [] p = "bNoRechargeItemConfirmMessage" -> {411277, 411278, 411293, 411299}
      [] p = "bNoRepairItemConfirmMessage" -> {411316, 411317, 411335}
      [] p = "bNoLoadGameConfirmMessage" -> {411475, 411477}
      [] p = "bWithoutPrefixNL" -> {308068}
      [] OTHER -> {}

\* Where a call in the middle of a function is replaced (DetourCall).
CallSites ==
    {407436, 406775, 411431, 410449, 411278, 411299, 411317, 411477}

\* Installed at addresses that do not come from the library.
Unnumbered == {"bThreads", "bMemoryManager", "bSafeExit", "bFFXQueryCrash", "bFriendship"}

-----------------------------------------------------------------------------
(* The address library *)

Known(id) == id < library.count /\ id \notin library.missing

BugHasAddress(id) == open /\ id < library.count

\* ID: an address in the game's code.  The table is read also beyond its end.
HasAddress(id) == open /\ Known(id)
BehindTable(id) == open /\ id >= library.count

\* DetourCall gets a small number for an address.
NearNull(ids) == \E id \in ids \cap CallSites : ~HasAddress(id) /\ ~BehindTable(id)

\* The writes of a patch to the functions ids; those to sealed pages are skipped.
Write(ids) ==
    /\ patched' = patched \cup {id \in ids : HasAddress(id) /\ id \notin library.sealed}
    /\ IF \E id \in ids : BehindTable(id) THEN spoiled' \in BOOLEAN /\ (spoiled => spoiled')
                                          ELSE UNCHANGED spoiled

MayFault(ids) == NearNull(ids) \/ \E id \in ids : BehindTable(id)

-----------------------------------------------------------------------------
Init ==
    /\ SettingsInit
    /\ pc = "checking" /\ at = 1
    /\ library \in Libraries /\ open = FALSE
    /\ patched = {} /\ installed = {} /\ unfit = {}
    /\ spoiled = FALSE
    /\ stdio = SystemStdio

\* One of the sections of the program is not there.
Refuse ==
    /\ pc = "checking"
    /\ pc' = "refused"
    /\ UNCHANGED <<settingsVars, at, open, patchVars>>

\* Nobody looks at whether the library could be opened.
OpenAddressLibrary ==
    /\ pc = "checking"
    /\ open' = (library.count > 0)
    /\ pc' = "listing"
    /\ UNCHANGED <<settingsVars, at, patchVars>>

ListNext ==
    /\ pc = "listing" /\ at <= Len(AddOrder)
    /\ Add(AddOrder[at])
    /\ at' = at + 1
    /\ UNCHANGED <<pc, open, patchVars>>

StartLoading ==
    /\ pc = "listing" /\ at > Len(AddOrder)
    /\ OpenFile
    /\ pc' = "loading"
    /\ UNCHANGED <<at, open, patchVars>>

GoOnLoading ==
    /\ pc = "loading"
    /\ LoadNext \/ LoadEnds
    /\ UNCHANGED <<pc, at, open, patchVars>>

BugEndLoading ==
    /\ pc = "loading" /\ loading \in {"stopped", "complete"}
    /\ pc' = "patching" /\ at' = 1
    /\ open' = FALSE
    /\ UNCHANGED <<settingsVars, patchVars>>

\* The result of LoadFromFile is not looked at either.
EndLoading ==
    /\ pc = "loading" /\ loading \in {"stopped", "complete"}
    /\ pc' = "patching" /\ at' = 1
    /\ UNCHANGED <<settingsVars, open, patchVars>>

-----------------------------------------------------------------------------
(* Installation *)

Now == InstallOrder[at]

\* The settings decide; DataHandler and MaxStdio do without.
Wanted(p, v) ==
    CASE p \in {"DataHandler", "iMaxStdio"} -> TRUE
      [] p = "Memory" -> v["bMemoryManager"] = 1 \/ v["bAudioAllocator"] = 1
      [] OTHER -> v[p] = 1

AskedOf(p) == IF p = "Memory" THEN PlacesOf("bAudioAllocator") ELSE PlacesOf(p)

BugClamp(n) == Min({HighStdio, n})

Clamp(n) == Max({LowStdio, Min({HighStdio, n})})

\* Patches that write to functions of the library, and do not look at them.
InstallNumbered(p) ==
    /\ p \notin {"Memory", "bWithoutPrefixNL", "iMaxStdio"} \cup Unnumbered
    /\ Write(PlacesOf(p))
    /\ UNCHANGED <<installed, unfit, stdio>>

\* The functions of the C runtime are found by name; whether DetourIAT could
\* replace all of them is not looked at.
ReplaceRuntime ==
    IF value["bMemoryManager"] = 1
    THEN \/ installed' = installed \cup {"bMemoryManager"} /\ UNCHANGED unfit
         \/ unfit' = unfit \cup {"bMemoryManager"} /\ UNCHANGED installed
    ELSE UNCHANGED <<installed, unfit>>

\* Memory gives up when the system does not tell how much there is.  The
\* functions of the audio library are found by number, and each is replaced if
\* it has an address.
InstallMemory ==
    /\ Now = "Memory"
    /\ \/ /\ unfit' = unfit \cup {"Memory"}
          /\ UNCHANGED <<patched, installed, spoiled>>
       \/ /\ ReplaceRuntime
          /\ IF value["bAudioAllocator"] = 1
             THEN Write(PlacesOf("bAudioAllocator"))
             ELSE UNCHANGED <<patched, spoiled>>
    /\ UNCHANGED stdio

\* The runtime may refuse.
InstallMaxStdio ==
    /\ Now = "iMaxStdio"
    /\ stdio' \in {Clamp(value["iMaxStdio"]), stdio}
    /\ UNCHANGED <<patched, installed, unfit, spoiled>>

\* FFXQueryCrash knows two versions of the game, Friendship looks for a pattern;
\* SafeExit and Threads do not look whether DetourIAT could replace the function.
InstallUnnumbered(p) ==
    /\ p \in Unnumbered \ {"bMemoryManager"}
    /\ p = "bFFXQueryCrash" => open
    /\ \/ installed' = installed \cup {p} /\ UNCHANGED unfit
       \/ unfit' = unfit \cup {p} /\ UNCHANGED installed
    /\ UNCHANGED <<patched, spoiled, stdio>>

\* WithoutPrefixNL looks at the address and at the code it is about to change.
InstallWithoutPrefixNL ==
    /\ Now = "bWithoutPrefixNL"
    /\ \/ Write(PlacesOf(Now)) /\ UNCHANGED unfit
       \/ /\ HasAddress(308068)
          /\ unfit' = unfit \cup {Now} /\ UNCHANGED <<patched, spoiled>>
    /\ UNCHANGED <<installed, stdio>>

Patching == pc = "patching" /\ at <= Len(InstallOrder)

Skip ==
    /\ Patching /\ ~Wanted(Now, value)
    /\ at' = at + 1
    /\ UNCHANGED <<settingsVars, pc, open, patchVars>>

Install ==
    /\ Patching /\ Wanted(Now, value)
    /\ at' = at + 1
    /\ \/ InstallNumbered(Now)
       \/ InstallMemory
       \/ InstallMaxStdio
       \/ InstallUnnumbered(Now)
       \/ InstallWithoutPrefixNL
    /\ UNCHANGED <<settingsVars, pc, open, library>>

\* A function of the library that is not there, or anywhere; and FFXQueryCrash
\* asks a library that is not there for the version.
Crash ==
    /\ Patching /\ Wanted(Now, value)
    /\ \/ MayFault(AskedOf(Now)) /\ (Now = "Memory" => value["bAudioAllocator"] = 1)
       \/ Now = "bFFXQueryCrash" /\ ~open
    /\ pc' = "crashed"
    /\ UNCHANGED <<settingsVars, at, open, patchVars>>

Release ==
    /\ pc = "patching" /\ at > Len(InstallOrder)
    /\ open' = FALSE
    /\ pc' = "ended"
    /\ UNCHANGED <<settingsVars, at, patchVars>>

Next ==
    \/ Refuse \/ OpenAddressLibrary
    \/ ListNext \/ StartLoading \/ GoOnLoading \/ EndLoading
    \/ Skip \/ Install \/ Crash \/ Release

Spec == Init /\ [][Next]_vars

-----------------------------------------------------------------------------
(* Properties *)

TypeOK ==
    /\ SettingsTypeOK
    /\ pc \in {"checking", "listing", "loading", "patching", "ended", "refused", "crashed"}
    /\ at \in 1 .. Len(InstallOrder) + 1
    /\ library \in Libraries /\ open \in BOOLEAN
    /\ patched \subseteq UNION {PlacesOf(o) : o \in Options \cup {"DataHandler"}}
    /\ installed \cup unfit \subseteq Unnumbered \cup {"Memory", "bWithoutPrefixNL"}
    /\ spoiled \in BOOLEAN /\ stdio \in {SystemStdio} \cup LowStdio .. HighStdio

\* The settings of the file that have no effect, for one of three reasons:
\* bFFXQueryCrash is not in AddOrder; one setting may be refused by Add, for what is
\* in the memory behind the collection; and a section that is no table ends the
\* loading, for its settings and those of a higher hash.
Overlooked(o) ==
    \/ o \in {"bFFXQueryCrash", garbage}
    \/ \E l \in Options \ {"bFFXQueryCrash", garbage} :
          Rank[l] <= Rank[o] /\ file.section[SectionOf[l]] = "other"

FromFile == [o \in Options |-> IF Overlooked(o) THEN Default(o) ELSE FileSays(o)]

\* After loading, every setting has what the file says of it, but for those that
\* Overlooked names, bFFXQueryCrash among them, which keep their defaults: no other
\* setting is lost, whatever the order of the hashes and wherever the loading ended.
LoadedAsFile == pc \in {"patching", "ended"} => value = FromFile

\* The settings that turn something on, and what they ask of the address library.
On == {o \in Options \ {"iMaxStdio"} : FromFile[o] = 1}
Places(patches) == UNION {PlacesOf(p) : p \in patches \cup {"DataHandler"}}

\* What is installed in the end is what the file turns on, and nothing else, with the
\* exceptions of Overlooked (the fix bFFXQueryCrash is on whatever the file says) and
\* of what could not be installed: a patch that does not fit the game, and each
\* function that has no address or cannot be written to.
ActiveAsFile == pc = "ended" =>
    LET out == IF "Memory" \in unfit
               THEN unfit \cup {"bMemoryManager", "bAudioAllocator"} ELSE unfit
    IN /\ installed = (On \ out) \cap Unnumbered
       /\ patched = {id \in Places(On \ out) : Known(id) /\ id \notin library.sealed}
       /\ stdio \in {SystemStdio, Clamp(FromFile["iMaxStdio"])}

\* A start only fails, or writes where it should not, when the library lacks
\* something that DataHandler or a patch that is on asks of it.
FailsOnlyWithoutAddresses ==
    /\ pc = "crashed" => \E id \in Places(On) : ~Known(id)
    /\ spoiled => library.count > 0 /\ \E id \in Places(On) : id >= library.count

\* The file turns a fix off by its line (Turpentine.toml), when the file is
\* understood and Add refuses no setting.  Not so for bFFXQueryCrash.
FileTurnsOff ==
    pc = "ended" /\ file.ok /\ garbage = "unknown"
        /\ (\A s \in Sections : file.section[s] # "other")
      => \A p \in Unnumbered :
            file.item[p] = [type |-> "boolean", number |-> 0] => p \notin installed
===============================================================================
