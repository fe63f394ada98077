---------------------------- MODULE StartUpProofs -----------------------------
(***************************************************************************)
(* Proofs about the start of Turpentine: for every settings file, library  *)
(* of addresses and order of the settings' hashes, the settings get the    *)
(* values of the file, and what is installed is what they ask for.         *)
(***************************************************************************)
EXTENDS StartUp, TLAPS

-----------------------------------------------------------------------------
(* The invariant *)

\* The settings that have been offered to the collection before place n.
Offered(n) == {AddOrder[j] : j \in 1 .. n - 1}

\* The collection has those, but for the one that was taken for a duplicate; in the end
\* it is all settings but two.
ListInv ==
    /\ pc \in {"checking", "refused"} => at = 1 /\ listed = {} /\ garbage = "unknown"
    /\ pc = "listing" =>
           /\ at \in 1 .. 15
           /\ garbage \in Offered(at) \cup {"unknown"} /\ listed = Offered(at) \ {garbage}
    /\ pc \in {"loading", "patching", "ended", "crashed"} =>
           listed = Options \ {"bFFXQueryCrash", garbage}

\* What the loop makes of the file, in terms of the collection.
KeptFrom(o) ==
    \E l \in listed : Rank[l] <= Rank[o] /\ file.section[SectionOf[l]] = "other"
Read(o) ==
    /\ o \in listed /\ file.ok /\ ~KeptFrom(o)
    /\ file.item[o].type = TypeOf(o)
Effective == [o \in Options |-> IF Read(o) THEN Loaded(file.item[o]) ELSE Default(o)]

\* The values when the loop over the settings has come to place n.
LoadedBelow(n) ==
    [o \in Options |->
        IF o \in listed /\ Rank[o] < n /\ file.item[o].type = TypeOf(o)
        THEN Loaded(file.item[o]) ELSE Default(o)]

\* The loop has only passed settings whose sections are tables or not there; when it
\* is left, early or not, the values are those in effect.
LoadInv ==
    /\ pc \in {"checking", "refused", "listing"} =>
           loading = "no" /\ next = 1 /\ value = [o \in Options |-> Default(o)]
    /\ pc = "loading" =>
           /\ loading # "no"
           /\ loading = "going on" =>
                  /\ file.ok /\ value = LoadedBelow(next)
                  /\ \A l \in listed : Rank[l] < next => file.section[SectionOf[l]] # "other"
           /\ loading \in {"stopped", "complete"} => value = Effective
    /\ pc \in {"patching", "ended", "crashed"} => value = Effective

\* The patches that have had their turn before place n.
Before(n) == {InstallOrder[j] : j \in 1 .. n - 1}
AskedBefore(n) == {p \in Before(n) : Wanted(p, value)}

\* Those that may have turned out not to fit; that of the C runtime belongs to Memory.
Tried(n) == Before(n) \cup (IF "Memory" \in Before(n) THEN {"bMemoryManager"} ELSE {})

\* The functions that a patch can write to.
Writable(id) == Known(id) /\ id \notin library.sealed

MemoryBefore(n) ==
    {o \in {"bMemoryManager", "bAudioAllocator"} :
        value[o] = 1 /\ "Memory" \in Before(n) \ unfit}

\* Of these, what was asked for and fits is installed, and nothing else.
InstalledBefore(n) ==
    LET active == (AskedBefore(n) \cup MemoryBefore(n)) \ unfit
    IN /\ unfit \subseteq Tried(n)
       /\ installed = active \cap Unnumbered
       /\ patched = {id \in UNION {PlacesOf(p) : p \in active} : Writable(id)}
       /\ IF "iMaxStdio" \in Before(n)
          THEN stdio \in {SystemStdio, Clamp(value["iMaxStdio"])}
          ELSE stdio = SystemStdio

\* The library is open from the start to the end, if there is one; nothing is
\* installed before the settings are loaded.
InstallInv ==
    /\ pc \in {"listing", "loading", "patching"} => (open <=> library.count > 0)
    /\ pc \in {"checking", "refused", "listing", "loading"} =>
           /\ patched = {} /\ installed = {} /\ unfit = {} /\ ~spoiled
           /\ stdio = SystemStdio
    /\ pc = "patching" => InstalledBefore(at)
    /\ pc = "ended" => InstalledBefore(Len(InstallOrder) + 1)

IInv == TypeOK /\ ListInv /\ LoadInv /\ InstallInv /\ FailsOnlyWithoutAddresses
-----------------------------------------------------------------------------
(* The tables *)

\* The settings, all of them.
LEMMA SomeOptions ==
  Options =
     {"bThreads", "bMemoryManager", "bAudioAllocator", "iMaxStdio",
      "bNoScriptMessageBox", "bNoPoisonConfirmMessage", "bNoTradeSpellConfirmMessage",
      "bNoTradeItemConfirmMessage", "bNoRechargeItemConfirmMessage",
      "bNoRepairItemConfirmMessage", "bNoLoadGameConfirmMessage", "bSafeExit",
      "bFFXQueryCrash", "bWithoutPrefixNL", "bFriendship"}
<1>1. /\ OptionsOf("Patches") = {"bThreads", "bMemoryManager", "bAudioAllocator", "iMaxStdio"}
      /\ OptionsOf("Fixes") = {"bSafeExit", "bFFXQueryCrash", "bWithoutPrefixNL"}
      /\ OptionsOf("Gameplay") =
            {"bNoScriptMessageBox", "bNoPoisonConfirmMessage",
             "bNoTradeSpellConfirmMessage", "bNoTradeItemConfirmMessage",
             "bNoRechargeItemConfirmMessage", "bNoRepairItemConfirmMessage",
             "bNoLoadGameConfirmMessage"}
      /\ OptionsOf("Jokes") = {"bFriendship"}
  BY DEF OptionsOf
<1>2. Options = OptionsOf("Patches") \cup OptionsOf("Fixes") \cup OptionsOf("Gameplay")
                  \cup OptionsOf("Jokes")
  BY DEF Options, Sections
<1> QED
  BY <1>1, <1>2

\* Every patch has one turn.
LEMMA InstallOrderFacts ==
  /\ Len(InstallOrder) = 15 /\ Len(AddOrder) = 14
  /\ \A n \in 1 .. 15 :
        InstallOrder[n] \in (Options \cup {"DataHandler", "Memory"})
                            \ {"bMemoryManager", "bAudioAllocator"}
  /\ \A n \in 1 .. 14 : AddOrder[n] \in Options
  /\ \A i, j \in 1 .. 15 : InstallOrder[i] = InstallOrder[j] => i = j
<1>1. Len(InstallOrder) = 15 /\ Len(AddOrder) = 14
  BY DEF InstallOrder, AddOrder
<1>2. \A n \in 1 .. 15 :
        InstallOrder[n] \in (Options \cup {"DataHandler", "Memory"})
                            \ {"bMemoryManager", "bAudioAllocator"}
  BY SomeOptions DEF InstallOrder
<1>3. \A n \in 1 .. 14 : AddOrder[n] \in Options
  BY SomeOptions DEF AddOrder
<1>4. \A i, j \in 1 .. 15 : InstallOrder[i] = InstallOrder[j] => i = j
  BY DEF InstallOrder
<1> QED
  BY <1>1, <1>2, <1>3, <1>4

\* Each setting but bFFXQueryCrash is offered once.
LEMMA OfferedFacts ==
  /\ Offered(1) = {} /\ Offered(15) = Options \ {"bFFXQueryCrash"}
  /\ \A n \in 1 .. 14 :
        Offered(n + 1) = Offered(n) \cup {AddOrder[n]} /\ AddOrder[n] \notin Offered(n)
  /\ "unknown" \notin Options
<1>1. Offered(1) = {}
  BY DEF Offered
<1>2. Offered(15) = Options \ {"bFFXQueryCrash"}
  <2>1. Offered(15) = {AddOrder[j] : j \in 1 .. 14}
    BY DEF Offered
  <2>2. \A o \in Options \ {"bFFXQueryCrash"} : \E j \in 1 .. 14 : AddOrder[j] = o
    BY SomeOptions DEF AddOrder
  <2>3. \A j \in 1 .. 14 : AddOrder[j] \in Options \ {"bFFXQueryCrash"}
    BY SomeOptions DEF AddOrder
  <2> QED
    BY <2>1, <2>2, <2>3
<1>3. ASSUME NEW n \in 1 .. 14
      PROVE  Offered(n + 1) = Offered(n) \cup {AddOrder[n]} /\ AddOrder[n] \notin Offered(n)
  <2>1. 1 .. n + 1 - 1 = 1 .. n - 1 \cup {n}
    OBVIOUS
  <2>2. \A i, j \in 1 .. 14 : AddOrder[i] = AddOrder[j] => i = j
    BY DEF AddOrder
  <2>3. \A j \in 1 .. n - 1 : j \in 1 .. 14 /\ j # n
    OBVIOUS
  <2> QED
    BY <2>1, <2>2, <2>3 DEF Offered
<1>4. "unknown" \notin Options
  BY SomeOptions
<1> QED
  BY <1>1, <1>2, <1>3, <1>4

\* What writes to no function of the library.
LEMMA NoPlaces ==
  \A p \in Unnumbered \cup {"Memory", "iMaxStdio"} : PlacesOf(p) = {}
BY DEF Unnumbered, PlacesOf

\* A patch that has its turn has not had it before.
LEMMA BeforeNext ==
  ASSUME NEW n \in 1 .. 15
  PROVE  /\ Before(n + 1) = Before(n) \cup {InstallOrder[n]}
         /\ InstallOrder[n] \notin Before(n)
         /\ Before(n) \cap {"bMemoryManager", "bAudioAllocator"} = {}
<1>1. Before(n + 1) = Before(n) \cup {InstallOrder[n]}
  <2>1. 1 .. n + 1 - 1 = 1 .. n - 1 \cup {n}
    OBVIOUS
  <2> QED
    BY <2>1 DEF Before
<1>2. \A j \in 1 .. n - 1 : j \in 1 .. 15 /\ j # n
  OBVIOUS
<1> QED
  BY <1>1, <1>2, InstallOrderFacts DEF Before

\* All that is asked of the library of addresses.
AllPlaces == UNION {PlacesOf(o) : o \in Options \cup {"DataHandler"}}

\* A patch asks for nothing else.
LEMMA PlacesAsked ==
  /\ AllPlaces \subseteq Nat
  /\ \A p \in Options \cup {"DataHandler", "Memory"} :
        PlacesOf(p) \subseteq AllPlaces /\ AskedOf(p) \subseteq AllPlaces
<1>1. \A p : PlacesOf(p) \subseteq Nat
  BY DEF PlacesOf
<1>2. \A p \in Options \cup {"DataHandler"} : PlacesOf(p) \subseteq AllPlaces
  BY DEF AllPlaces
<1>3. "bAudioAllocator" \in Options
  BY SomeOptions
<1>4. PlacesOf("Memory") = {}
  BY NoPlaces
<1> QED
  BY <1>1, <1>2, <1>3, <1>4 DEF AllPlaces, AskedOf

\* The functions of the patches in A that can be written to.
Reached(A) == {id \in UNION {PlacesOf(p) : p \in A} : Writable(id)}

\* One more patch reaches its own functions, and no others.
LEMMA ReachedWith ==
  ASSUME NEW A, NEW p
  PROVE  Reached(A \cup {p}) = Reached(A) \cup {id \in PlacesOf(p) : Writable(id)}
BY DEF Reached

-----------------------------------------------------------------------------
(* Numbers and values *)

\* MaxStdio keeps the number within its limits.
LEMMA ClampInLimits ==
  ASSUME NEW n \in Int
  PROVE  Clamp(n) \in LowStdio .. HighStdio
<1>1. LowStdio \in Nat /\ HighStdio \in Nat /\ LowStdio <= HighStdio
  BY StartUpAssumption
<1>2. PICK m : m = Min({HighStdio, n})
  OBVIOUS
<1>3. m \in {HighStdio, n} /\ m <= HighStdio
  <2>1. \E x \in {HighStdio, n} : \A y \in {HighStdio, n} : x <= y
    BY <1>1
  <2> QED
    BY <2>1, <1>2 DEF Min
<1>4. Max({LowStdio, m}) \in {LowStdio, m} /\ Max({LowStdio, m}) >= LowStdio
  <2>1. \E x \in {LowStdio, m} : \A y \in {LowStdio, m} : x >= y
    BY <1>1, <1>3
  <2> QED
    BY <2>1 DEF Max
<1> QED
  BY <1>1, <1>2, <1>3, <1>4 DEF Clamp

\* The place of a setting in the collection.
LEMMA RankFacts ==
  /\ \A o \in Options : Rank[o] \in 1 .. Len(Order) /\ Order[Rank[o]] = o
  /\ \A i \in 1 .. Len(Order) : Order[i] \in Options /\ Rank[Order[i]] = i
  /\ Len(Order) \in Nat
<1>1. \A o \in Options : Rank[o] \in 1 .. Len(Order) /\ Order[Rank[o]] = o
  BY SettingsAssumption DEF Rank
<1>2. \A i \in 1 .. Len(Order) : Order[i] \in Options
  BY SettingsAssumption
<1>3. Len(Order) \in Nat
  BY SettingsAssumption
<1>4. ASSUME NEW i \in 1 .. Len(Order)
      PROVE  Rank[Order[i]] = i
  <2>1. Rank[Order[i]] \in 1 .. Len(Order) /\ Order[Rank[Order[i]]] = Order[i]
    BY <1>1, <1>2
  <2>2. \A j, k \in 1 .. Len(Order) : Order[j] = Order[k] => j = k
    BY SettingsAssumption
  <2> QED
    BY <2>1, <2>2
<1> QED
  BY <1>1, <1>2, <1>3, <1>4

\* What a setting starts with, and what is read for it, are integers.
LEMMA ValueTypes ==
  /\ \A o \in Options : Default(o) \in Int
  /\ \A item \in Items : Loaded(item) \in Int
<1>1. \A o \in Options : Default(o) \in Int
  BY SettingsAssumption DEF Default
<1>2. ASSUME NEW item \in Items
      PROVE  Loaded(item) \in Int
  <2>1. item.number \in Nat /\ IntWrap \in Nat \ {0}
    BY SettingsAssumption DEF Items
  <2>2. item.number % IntWrap \in Nat
    BY <2>1, Z3
  <2> QED
    BY <2>1, <2>2 DEF Loaded, Signed
<1> QED
  BY <1>1, <1>2

\* Before the file is opened nothing stands in it; and a file has its type.
LEMMA FileTypes == Unread \in File /\ Files \subseteq File
BY SettingsAssumption DEF Unread, File, Items

-----------------------------------------------------------------------------
(* Loading *)

\* What is read depends on the list and the file, and on nothing else.
LEMMA SameReading ==
  ASSUME UNCHANGED <<listed, garbage, file>>
  PROVE  /\ Effective' = Effective
         /\ \A n : LoadedBelow(n)' = LoadedBelow(n)
         /\ On' = On /\ Places(On)' = Places(On)
<1>1. Effective' = Effective /\ \A n : LoadedBelow(n)' = LoadedBelow(n)
  BY DEF Effective, Read, KeptFrom, LoadedBelow
<1>2. FromFile' = FromFile
  BY DEF FromFile, Overlooked, FileSays
<1>3. On' = On
  BY <1>2 DEF On
<1> QED
  BY <1>1, <1>3 DEF Places

\* When the loop starts, all settings have their defaults.
LEMMA LoadedBelowFirst == LoadedBelow(1) = [o \in Options |-> Default(o)]
<1>1. \A o \in Options : ~(Rank[o] < 1)
  BY RankFacts
<1> QED
  BY <1>1 DEF LoadedBelow

\* One turn of the loop.
LEMMA LoadedBelowNext ==
  ASSUME NEW n \in 1 .. Len(Order)
  PROVE  LoadedBelow(n + 1) =
            IF Order[n] \in listed /\ file.item[Order[n]].type = TypeOf(Order[n])
            THEN [LoadedBelow(n) EXCEPT ![Order[n]] = Loaded(file.item[Order[n]])]
            ELSE LoadedBelow(n)
<1>1. PICK l \in Options : l = Order[n] /\ Rank[l] = n
  BY RankFacts
<1>2. ASSUME NEW o \in Options
      PROVE  (Rank[o] < n + 1 <=> Rank[o] < n \/ o = l) /\ ~(Rank[l] < n)
  <2>1. Rank[o] \in Nat /\ (Rank[o] = n => o = l)
    BY RankFacts, <1>1
  <2> QED
    BY <2>1, <1>1
<1>3. CASE l \in listed /\ file.item[l].type = TypeOf(l)
  BY <1>1, <1>2, <1>3 DEF LoadedBelow
<1>4. CASE ~(l \in listed /\ file.item[l].type = TypeOf(l))
  BY <1>1, <1>2, <1>4 DEF LoadedBelow
<1> QED
  BY <1>1, <1>3, <1>4

\* The loop is left at a setting whose section is no table, and none before it was
\* one: those before it have been read, those behind it are kept from it.
LEMMA LoadedWhenStopped ==
  ASSUME TypeOK, file.ok, NEW l \in listed,
         file.section[SectionOf[l]] = "other",
         \A m \in listed : Rank[m] < Rank[l] => file.section[SectionOf[m]] # "other"
  PROVE  LoadedBelow(Rank[l]) = Effective
<1>1. listed \subseteq Options /\ l \in Options
  BY DEF TypeOK, SettingsTypeOK
<1>2. \A o \in Options : Rank[o] \in Nat
  BY RankFacts
<1>3. ASSUME NEW o \in Options
      PROVE  KeptFrom(o) <=> ~(Rank[o] < Rank[l])
  <2>1. CASE Rank[o] < Rank[l]
    <3>1. ASSUME NEW m \in listed, Rank[m] <= Rank[o]
          PROVE  file.section[SectionOf[m]] # "other"
      <4>1. Rank[m] < Rank[l]
        BY <1>1, <1>2, <2>1, <3>1
      <4> QED
        BY <4>1
    <3> QED
      BY <2>1, <3>1 DEF KeptFrom
  <2>2. CASE ~(Rank[o] < Rank[l])
    BY <1>1, <1>2, <2>2 DEF KeptFrom
  <2> QED
    BY <2>1, <2>2
<1> QED
  BY <1>3 DEF LoadedBelow, Effective, Read

\* At the end of the loop every setting has been read.
LEMMA LoadedAtEnd ==
  ASSUME TypeOK, file.ok,
         \A l \in listed : file.section[SectionOf[l]] # "other"
  PROVE  LoadedBelow(Len(Order) + 1) = Effective
<1>1. \A o \in Options : Rank[o] < Len(Order) + 1 /\ ~KeptFrom(o)
  BY RankFacts DEF KeptFrom
<1> QED
  BY <1>1 DEF LoadedBelow, Effective, Read

\* Without a file, the settings in effect are the defaults.
LEMMA EffectiveWithoutFile ==
  ASSUME ~file.ok
  PROVE  Effective = [o \in Options |-> Default(o)]
BY DEF Effective, Read

\* When all settings have been offered, what is read is what the file says, but for
\* those that are overlooked.
LEMMA EffectiveIsFromFile ==
  ASSUME listed = Options \ {"bFFXQueryCrash", garbage}
  PROVE  Effective = FromFile
<1>1. \A o \in Options : o \notin listed \/ KeptFrom(o) <=> Overlooked(o)
  BY DEF KeptFrom, Overlooked
<1> QED
  BY <1>1 DEF Effective, FromFile, FileSays, Read

-----------------------------------------------------------------------------
(* The invariant at the beginning, and while the settings are loaded *)

\* The start has the invariant.
LEMMA InitInv == Init => IInv
<1> SUFFICES ASSUME Init
             PROVE  IInv
  OBVIOUS
<1> USE DEF Init, SettingsInit
<1>1. TypeOK
  <2>1. SettingsTypeOK
    BY ValueTypes, FileTypes, RankFacts DEF SettingsTypeOK
  <2>2. at \in 1 .. Len(InstallOrder) + 1
    BY InstallOrderFacts
  <2>3. patched \subseteq UNION {PlacesOf(o) : o \in Options \cup {"DataHandler"}}
    OBVIOUS
  <2>4. installed \cup unfit \subseteq Unnumbered \cup {"Memory", "bWithoutPrefixNL"}
    OBVIOUS
  <2> QED
    BY <2>1, <2>2, <2>3, <2>4 DEF TypeOK
<1>2. LoadInv
  BY DEF LoadInv
<1>3. InstallInv
  BY DEF InstallInv
<1>4. FailsOnlyWithoutAddresses
  BY DEF FailsOnlyWithoutAddresses
<1>5. ListInv
  BY DEF ListInv
<1> QED
  BY <1>1, <1>2, <1>3, <1>4, <1>5 DEF IInv

\* The steps before the settings are loaded.
LEMMA ListingInv ==
  ASSUME IInv, Refuse \/ OpenAddressLibrary \/ ListNext
  PROVE  IInv'
<1> USE DEF settingsVars, patchVars
<1>1. /\ pc \in {"checking", "listing"} /\ pc' \in {"refused", "listing"}
      /\ UNCHANGED <<file, value, next, loading, patchVars>>
  BY DEF Refuse, OpenAddressLibrary, ListNext, Add
<1>2. TypeOK'
  <2>1. at \in 1 .. 16 /\ listed \subseteq Options /\ garbage \in Options \cup {"unknown"}
    <3>1. at \in 1 .. Len(InstallOrder) + 1
      BY DEF IInv, TypeOK
    <3>2. listed \subseteq Options /\ garbage \in Options \cup {"unknown"}
      BY DEF IInv, TypeOK, SettingsTypeOK
    <3> QED
      BY <3>1, <3>2, InstallOrderFacts
  <2>2. at' \in 1 .. 16
    BY <2>1, InstallOrderFacts DEF Refuse, OpenAddressLibrary, ListNext
  <2>3. listed' \subseteq Options /\ garbage' \in Options \cup {"unknown"}
    <3>1. CASE ListNext
      <4>1. at \in 1 .. 14
        BY <2>1, <3>1, InstallOrderFacts DEF ListNext
      <4>2. AddOrder[at] \in Options
        BY <4>1, InstallOrderFacts
      <4>3. Add(AddOrder[at])
        BY <3>1 DEF ListNext
      <4>4. PICK o \in Options : o = AddOrder[at]
        BY <4>2
      <4>5. Add(o)
        BY <4>3, <4>4
      <4> QED
        BY <2>1, <4>5 DEF Add
    <3> QED
      BY <2>1, <3>1 DEF Refuse, OpenAddressLibrary
  <2>4. open' \in BOOLEAN
    <3>1. open \in BOOLEAN
      BY DEF IInv, TypeOK
    <3>2. open' = open \/ open' = (library.count > 0)
      BY DEF Refuse, OpenAddressLibrary, ListNext
    <3>3. (library.count > 0) \in BOOLEAN
      OBVIOUS
    <3> QED
      BY <3>1, <3>2, <3>3, Zenon
  <2>5. SettingsTypeOK'
    BY <1>1, <2>3 DEF IInv, TypeOK, SettingsTypeOK
  <2>6. at' \in 1 .. Len(InstallOrder) + 1
    BY <2>2, InstallOrderFacts
  <2> QED
    BY <1>1, <2>4, <2>5, <2>6 DEF IInv, TypeOK
<1>3. LoadInv'
  BY <1>1 DEF IInv, LoadInv
<1>4. InstallInv'
  <2>1. pc' = "listing" => (open' <=> library.count > 0)
    BY DEF Refuse, OpenAddressLibrary, ListNext, IInv, InstallInv
  <2> QED
    BY <1>1, <2>1 DEF IInv, InstallInv
<1>5. FailsOnlyWithoutAddresses'
  BY <1>1 DEF IInv, InstallInv, FailsOnlyWithoutAddresses
<1>6. ListInv'
  <2>1. CASE Refuse \/ OpenAddressLibrary
    <3>1. /\ pc = "checking" /\ pc' \in {"refused", "listing"}
          /\ UNCHANGED <<at, listed, garbage>>
      BY <2>1 DEF Refuse, OpenAddressLibrary
    <3>2. at = 1 /\ listed = {} /\ garbage = "unknown"
      BY <3>1 DEF IInv, ListInv
    <3> QED
      BY <3>1, <3>2, OfferedFacts DEF ListInv
  <2>2. CASE ListNext
    <3>1. /\ pc = "listing" /\ pc' = "listing" /\ at <= 14 /\ at' = at + 1
          /\ Add(AddOrder[at])
      BY <2>2, InstallOrderFacts DEF ListNext
    <3>2. at \in 1 .. 14 /\ garbage \in Offered(at) \cup {"unknown"}
          /\ listed = Offered(at) \ {garbage}
      BY <3>1 DEF IInv, ListInv
    <3>3. PICK o \in Options : o = AddOrder[at]
      BY <3>2, InstallOrderFacts
    <3>4. /\ Offered(at + 1) = Offered(at) \cup {o}
          /\ o \notin Offered(at) /\ o # "unknown"
      BY <3>2, <3>3, OfferedFacts
    <3>5. garbage' \in Offered(at + 1) \cup {"unknown"}
          /\ listed' = Offered(at + 1) \ {garbage'}
      <4>1. CASE listed' = listed \cup {o} /\ garbage' = garbage
        <5>1. o # garbage
          BY <3>2, <3>4
        <5> QED
          BY <3>2, <3>4, <4>1, <5>1
      <4>2. CASE garbage = "unknown" /\ garbage' = o /\ listed' = listed
        <5>1. "unknown" \notin Offered(at)
          <6>1. \A j \in 1 .. at - 1 : j \in 1 .. 14
            BY <3>2
          <6> QED
            BY <6>1, InstallOrderFacts, OfferedFacts DEF Offered
        <5> QED
          BY <3>2, <3>4, <4>2, <5>1
      <4> QED
        BY <3>1, <3>3, <4>1, <4>2 DEF Add
    <3>6. Offered(at)' = Offered(at + 1)
      BY <3>1 DEF Offered
    <3> QED
      BY <3>1, <3>2, <3>5, <3>6 DEF ListInv
  <2> QED
    BY <2>1, <2>2
<1> QED
  BY <1>2, <1>3, <1>4, <1>5, <1>6 DEF IInv

\* The file is opened.
LEMMA StartLoadingInv ==
  ASSUME IInv, StartLoading
  PROVE  IInv'
<1> USE DEF settingsVars, patchVars
<1>1. /\ pc = "listing" /\ pc' = "loading"
      /\ file' \in Files /\ loading' = IF file'.ok THEN "going on" ELSE "stopped"
      /\ UNCHANGED <<listed, garbage, value, next, at, open, patchVars>>
  BY DEF StartLoading, OpenFile
<1>2. TypeOK'
  BY <1>1, FileTypes DEF IInv, TypeOK, SettingsTypeOK
<1>3. LoadInv'
  <2>1. next' = 1 /\ value' = [o \in Options |-> Default(o)]
    BY <1>1 DEF IInv, LoadInv
  <2>2. \A o \in Options : ~(Rank[o] < 1)
    BY RankFacts
  <2>3. ~file'.ok => Effective' = [o \in Options |-> Default(o)]
    BY DEF Effective, Read
  <2>4. listed \subseteq Options
    BY DEF IInv, TypeOK, SettingsTypeOK
  <2>5. LoadedBelow(next)' = [o \in Options |-> Default(o)]
    BY <2>1, <2>2 DEF LoadedBelow
  <2> QED
    BY <1>1, <2>1, <2>2, <2>3, <2>4, <2>5 DEF LoadInv
<1>4. InstallInv'
  BY <1>1 DEF IInv, InstallInv
<1>5. FailsOnlyWithoutAddresses'
  BY <1>1 DEF IInv, InstallInv, FailsOnlyWithoutAddresses
<1>6. ListInv'
  <2>1. at > 14 /\ at \in 1 .. 15 /\ listed = Offered(at) \ {garbage}
    BY <1>1, InstallOrderFacts DEF StartLoading, IInv, ListInv
  <2>2. at = 15
    BY <2>1
  <2>3. listed = Options \ {"bFFXQueryCrash", garbage}
    BY <2>1, <2>2, OfferedFacts
  <2> QED
    BY <1>1, <2>3 DEF ListInv
<1> QED
  BY <1>2, <1>3, <1>4, <1>5, <1>6 DEF IInv

\* One turn of the loop over the settings, or its end.
LEMMA GoOnLoadingInv ==
  ASSUME IInv, GoOnLoading
  PROVE  IInv'
<1> USE DEF settingsVars, patchVars
<1>1. /\ pc = "loading" /\ loading = "going on"
      /\ UNCHANGED <<listed, garbage, file, pc, at, open, patchVars>>
      /\ LoadNext \/ LoadEnds
  BY DEF GoOnLoading, LoadNext, LoadEnds
<1>2. /\ file.ok /\ value = LoadedBelow(next)
      /\ \A l \in listed : Rank[l] < next => file.section[SectionOf[l]] # "other"
      /\ next \in 1 .. Len(Order) + 1 /\ Len(Order) \in Nat
      /\ listed \subseteq Options /\ TypeOK
  BY <1>1, RankFacts DEF IInv, LoadInv, TypeOK, SettingsTypeOK
<1>3. Effective' = Effective /\ \A n : LoadedBelow(n)' = LoadedBelow(n)
  BY <1>1, SameReading
<1>4. /\ value' \in [Options -> Int] /\ next' \in 1 .. Len(Order) + 1
      /\ loading' \in {"going on", "stopped", "complete"}
      /\ loading' = "going on" =>
            /\ value' = LoadedBelow(next')
            /\ \A l \in listed : Rank[l] < next' => file.section[SectionOf[l]] # "other"
      /\ loading' \in {"stopped", "complete"} => value' = Effective
  <2>1. CASE LoadNext
    <3>1. next \in 1 .. Len(Order) /\ next' = next + 1
      <4>1. next <= Len(Order) /\ next' = next + 1
        BY <2>1 DEF LoadNext
      <4> QED
        BY <1>2, <4>1
    <3>2. PICK l \in Options : l = Order[next] /\ Rank[l] = next
      BY <3>1, RankFacts
    <3>3. \A m \in listed : Rank[m] < next + 1 => Rank[m] < next \/ m = l
      <4>1. \A m \in Options : Rank[m] \in Nat /\ (Rank[m] = next => m = l)
        BY <3>2, RankFacts
      <4> QED
        BY <1>2, <3>1, <4>1
    <3>4. value \in [Options -> Int]
      BY <1>2 DEF TypeOK, SettingsTypeOK
    <3>5. CASE l \notin listed
      <4>1. value' = value /\ loading' = loading
        BY <2>1, <3>2, <3>5 DEF LoadNext
      <4>2. LoadedBelow(next + 1) = LoadedBelow(next)
        BY <3>1, <3>2, <3>5, LoadedBelowNext
      <4>3. next' \in 1 .. Len(Order) + 1
        BY <1>2, <3>1
      <4>4. \A m \in listed : Rank[m] < next' => file.section[SectionOf[m]] # "other"
        BY <1>2, <3>1, <3>3, <3>5
      <4> QED
        BY <1>1, <1>2, <3>1, <3>4, <4>1, <4>2, <4>3, <4>4
    <3>6. CASE l \in listed /\ file.section[SectionOf[l]] = "other"
      <4>1. value' = value /\ loading' = "stopped"
        BY <2>1, <3>2, <3>6 DEF LoadNext, LoadOption
      <4>2. LoadedBelow(next) = Effective
        BY <1>2, <3>2, <3>6, LoadedWhenStopped
      <4> QED
        BY <1>2, <3>1, <3>4, <4>1, <4>2
    <3>7. CASE l \in listed /\ file.section[SectionOf[l]] # "other"
      <4>1. /\ loading' = loading
            /\ value' = IF file.item[l].type = TypeOf(l)
                        THEN [value EXCEPT ![l] = Loaded(file.item[l])]
                        ELSE value
        BY <2>1, <3>2, <3>7 DEF LoadNext, LoadOption
      <4>2. value' = LoadedBelow(next + 1)
        BY <1>2, <3>1, <3>2, <3>7, <4>1, LoadedBelowNext
      <4>3. Loaded(file.item[l]) \in Int
        BY <1>2, ValueTypes DEF TypeOK, SettingsTypeOK, File
      <4>4. next' \in 1 .. Len(Order) + 1
        BY <1>2, <3>1
      <4>5. \A m \in listed : Rank[m] < next' => file.section[SectionOf[m]] # "other"
        BY <1>2, <3>1, <3>3, <3>7
      <4>6. value' \in [Options -> Int]
        BY <3>4, <4>1, <4>3
      <4> QED
        BY <1>1, <3>1, <4>1, <4>2, <4>4, <4>5, <4>6
    <3> QED
      BY <3>5, <3>6, <3>7
  <2>2. CASE LoadEnds
    <3>1. next = Len(Order) + 1 /\ loading' = "complete" /\ UNCHANGED <<value, next>>
      <4>1. next > Len(Order) /\ loading' = "complete" /\ UNCHANGED <<value, next>>
        BY <2>2 DEF LoadEnds
      <4> QED
        BY <1>2, <4>1
    <3>2. \A l \in listed : file.section[SectionOf[l]] # "other"
      <4>1. \A l \in listed : Rank[l] < next
        BY <1>2, <3>1, RankFacts
      <4> QED
        BY <1>2, <4>1
    <3>3. LoadedBelow(next) = Effective
      BY <1>2, <3>1, <3>2, LoadedAtEnd
    <3> QED
      BY <1>2, <3>1, <3>3 DEF TypeOK, SettingsTypeOK
  <2> QED
    BY <1>1, <2>1, <2>2
<1>5. TypeOK'
  BY <1>1, <1>2, <1>4 DEF TypeOK, SettingsTypeOK
<1>6. LoadInv'
  <2>1. LoadedBelow(next)' = LoadedBelow(next')
    BY <1>1 DEF LoadedBelow
  <2> QED
    BY <1>1, <1>2, <1>3, <1>4, <2>1 DEF LoadInv
<1>7. InstallInv'
  BY <1>1 DEF IInv, InstallInv
<1>8. FailsOnlyWithoutAddresses'
  BY <1>1 DEF IInv, InstallInv, FailsOnlyWithoutAddresses
<1>9. ListInv'
  BY <1>1 DEF IInv, ListInv
<1> QED
  BY <1>5, <1>6, <1>7, <1>8, <1>9 DEF IInv

\* Loading is over.
LEMMA EndLoadingInv ==
  ASSUME IInv, EndLoading
  PROVE  IInv'
<1> USE DEF settingsVars, patchVars
<1>1. /\ pc = "loading" /\ loading \in {"stopped", "complete"}
      /\ pc' = "patching" /\ at' = 1
      /\ UNCHANGED <<settingsVars, open, patchVars>>
  BY DEF EndLoading
<1>2. Effective' = Effective
  BY <1>1, SameReading
<1>3. TypeOK'
  <2>1. at' \in 1 .. Len(InstallOrder) + 1
    BY <1>1, InstallOrderFacts
  <2> QED
    BY <1>1, <2>1 DEF IInv, TypeOK, SettingsTypeOK
<1>4. LoadInv'
  BY <1>1, <1>2 DEF IInv, LoadInv
<1>5. InstallInv'
  <2>1. /\ patched' = {} /\ installed' = {} /\ unfit' = {} /\ stdio' = SystemStdio
        /\ (open' <=> library'.count > 0)
    BY <1>1 DEF IInv, InstallInv
  <2>2. Before(at)' = {} /\ Tried(at)' = {}
    BY <1>1 DEF Before, Tried
  <2>3. AskedBefore(at)' = {} /\ MemoryBefore(at)' = {}
    BY <2>2 DEF AskedBefore, MemoryBefore
  <2>4. InstalledBefore(at)'
    BY <2>1, <2>2, <2>3 DEF InstalledBefore
  <2> QED
    BY <1>1, <2>1, <2>4 DEF InstallInv
<1>6. FailsOnlyWithoutAddresses'
  BY <1>1 DEF IInv, InstallInv, FailsOnlyWithoutAddresses
<1>7. ListInv'
  BY <1>1 DEF IInv, ListInv
<1> QED
  BY <1>3, <1>4, <1>5, <1>6, <1>7 DEF IInv

-----------------------------------------------------------------------------
(* The invariant while the patches are installed *)

\* What is active when the patches before place n have had their turn.
ActiveBefore(n) == (AskedBefore(n) \cup MemoryBefore(n)) \ unfit

\* During the installation the next patch has not had its turn, and the functions
\* that have an address are those the library knows.
LEMMA PatchingFacts ==
  ASSUME IInv, Patching
  PROVE  /\ pc = "patching" /\ at \in 1 .. 15 /\ InstalledBefore(at)
         /\ Now \in (Options \cup {"DataHandler", "Memory"})
                    \ {"bMemoryManager", "bAudioAllocator"}
         /\ Before(at + 1) = Before(at) \cup {Now}
         /\ Now \notin Before(at) /\ unfit \subseteq Tried(at) /\ Now \notin unfit
         /\ Tried(at) \cup {Now} \subseteq Tried(at + 1)
         /\ Before(at) \cap {"bMemoryManager", "bAudioAllocator"} = {}
         /\ Now = "Memory" => unfit \cap {"bMemoryManager", "bAudioAllocator"} = {}
                              /\ Tried(at + 1) = Before(at + 1) \cup {"bMemoryManager"}
         /\ library.count \in Nat /\ (open <=> library.count > 0)
         /\ \A id \in Nat : HasAddress(id) <=> Known(id)
<1>1. pc = "patching" /\ at \in 1 .. 15 /\ InstalledBefore(at)
  <2>1. at \in 1 .. Len(InstallOrder) + 1 /\ at <= Len(InstallOrder) /\ pc = "patching"
    BY DEF IInv, TypeOK, Patching
  <2> QED
    BY <2>1, InstallOrderFacts DEF IInv, InstallInv
<1>2. library.count \in Nat
  BY StartUpAssumption DEF IInv, TypeOK
<1>3. open <=> library.count > 0
  BY <1>1 DEF IInv, InstallInv
<1>4. ASSUME NEW id \in Nat
      PROVE  HasAddress(id) <=> Known(id)
  <2>1. Known(id) => library.count > 0
    BY <1>2 DEF Known
  <2> QED
    BY <1>3, <2>1 DEF HasAddress
<1>5. unfit \subseteq Tried(at)
  BY <1>1 DEF InstalledBefore
<1>6. /\ Now \in (Options \cup {"DataHandler", "Memory"})
                 \ {"bMemoryManager", "bAudioAllocator"}
      /\ Before(at + 1) = Before(at) \cup {Now} /\ Now \notin Before(at)
      /\ Before(at) \cap {"bMemoryManager", "bAudioAllocator"} = {}
  BY <1>1, BeforeNext, InstallOrderFacts DEF Now
<1>7. /\ Now \notin unfit /\ Tried(at) \cup {Now} \subseteq Tried(at + 1)
      /\ Now = "Memory" => unfit \cap {"bMemoryManager", "bAudioAllocator"} = {}
                           /\ Tried(at + 1) = Before(at + 1) \cup {"bMemoryManager"}
  BY <1>5, <1>6 DEF Tried
<1> QED
  BY <1>1, <1>2, <1>3, <1>4, <1>5, <1>6, <1>7

\* A patch that has its turn, and asks for functions, is one that the file turns on.
LEMMA AskedIsOn ==
  ASSUME IInv, Patching, Wanted(Now, value)
  PROVE  /\ value = FromFile /\ Places(On) \subseteq AllPlaces
         /\ PlacesOf(Now) \subseteq Places(On)
         /\ value["bAudioAllocator"] = 1 => PlacesOf("bAudioAllocator") \subseteq Places(On)
<1>1. value = FromFile
  <2>1. listed = Options \ {"bFFXQueryCrash", garbage} /\ value = Effective
    BY PatchingFacts DEF IInv, ListInv, LoadInv
  <2> QED
    BY <2>1, EffectiveIsFromFile
<1>2. On \subseteq Options
  BY DEF On
<1>3. Places(On) \subseteq AllPlaces
  BY <1>2 DEF Places, AllPlaces
<1>4. \A p \in On \cup {"DataHandler"} : PlacesOf(p) \subseteq Places(On)
  BY DEF Places
<1>5. PlacesOf(Now) \subseteq Places(On)
  <2>1. CASE Now \in {"Memory", "iMaxStdio"}
    BY <2>1, NoPlaces
  <2>2. CASE Now = "DataHandler"
    BY <1>4, <2>2
  <2>3. CASE Now \in Options \ {"iMaxStdio"}
    <3>1. "Memory" \notin Options /\ "DataHandler" \notin Options
      BY SomeOptions
    <3>2. value[Now] = 1
      BY <2>3, <3>1 DEF Wanted
    <3>3. Now \in On
      BY <1>1, <2>3, <3>2 DEF On
    <3> QED
      BY <1>4, <3>3
  <2> QED
    BY <2>1, <2>2, <2>3, PatchingFacts
<1>6. value["bAudioAllocator"] = 1 => "bAudioAllocator" \in On
  BY <1>1, SomeOptions DEF On
<1> QED
  BY <1>1, <1>3, <1>4, <1>5, <1>6

\* The parts of a step of the installation that do not depend on the patch.
LEMMA PatchingStep ==
  ASSUME IInv, Patching, UNCHANGED <<settingsVars, pc, open, library>>, at' = at + 1,
         InstalledBefore(at)',
         patched' \subseteq AllPlaces,
         installed' \cup unfit' \subseteq Unnumbered \cup {"Memory", "bWithoutPrefixNL"},
         spoiled' \in BOOLEAN, stdio' \in {SystemStdio} \cup LowStdio .. HighStdio,
         spoiled' => spoiled \/ \E id \in Places(On) : BehindTable(id)
  PROVE  IInv'
<1> USE DEF settingsVars
<1>1. Effective' = Effective /\ Places(On)' = Places(On)
  BY SameReading
<1>2. TypeOK'
  <2>1. at' \in 1 .. Len(InstallOrder) + 1
    BY PatchingFacts, InstallOrderFacts
  <2>2. SettingsTypeOK'
    BY DEF IInv, TypeOK, SettingsTypeOK
  <2> QED
    BY <2>1, <2>2 DEF IInv, TypeOK, AllPlaces
<1>3. LoadInv'
  BY <1>1, PatchingFacts DEF IInv, LoadInv
<1>4. InstallInv'
  BY PatchingFacts DEF IInv, InstallInv
<1>5. FailsOnlyWithoutAddresses'
  <2>1. pc' # "crashed"
    BY PatchingFacts
  <2>2. \A id \in Places(On) : BehindTable(id) => library.count > 0 /\ id >= library.count
    BY PatchingFacts DEF BehindTable
  <2>3. spoiled => library.count > 0 /\ \E id \in Places(On) : id >= library.count
    BY DEF IInv, FailsOnlyWithoutAddresses
  <2>4. spoiled' => library.count > 0 /\ \E id \in Places(On) : id >= library.count
    BY <2>2, <2>3
  <2> QED
    BY <1>1, <2>1, <2>4 DEF FailsOnlyWithoutAddresses
<1>6. ListInv'
  BY PatchingFacts DEF IInv, ListInv
<1> QED
  BY <1>2, <1>3, <1>4, <1>5, <1>6 DEF IInv

\* Write in terms of the library.
LEMMA WriteFacts ==
  ASSUME IInv, Patching, Wanted(Now, value),
         NEW ids \in SUBSET Places(On), Write(ids)
  PROVE  /\ patched' = patched \cup {id \in ids : Writable(id)}
         /\ spoiled' \in BOOLEAN
         /\ spoiled' => spoiled \/ \E id \in Places(On) : BehindTable(id)
<1>1. \A id \in ids : HasAddress(id) <=> Known(id)
  BY PatchingFacts, AskedIsOn, PlacesAsked
<1>2. patched' = patched \cup {id \in ids : Writable(id)}
  BY <1>1 DEF Write, Writable
<1>3. spoiled \in BOOLEAN
  BY DEF IInv, TypeOK
<1>4. CASE \E id \in ids : BehindTable(id)
  <2>1. spoiled' \in BOOLEAN
    BY <1>4 DEF Write
  <2> QED
    BY <1>1, <1>2, <1>4, <2>1
<1>5. CASE ~\E id \in ids : BehindTable(id)
  <2>1. spoiled' = spoiled
    BY <1>5 DEF Write
  <2> QED
    BY <1>1, <1>2, <1>3, <2>1
<1> QED
  BY <1>4, <1>5

\* What the invariant says before the turn of the next patch.
LEMMA BeforeTurn ==
  ASSUME IInv, Patching
  PROVE  /\ installed = ActiveBefore(at) \cap Unnumbered
         /\ patched = Reached(ActiveBefore(at))
         /\ IF "iMaxStdio" \in Before(at)
            THEN stdio \in {SystemStdio, Clamp(value["iMaxStdio"])}
            ELSE stdio = SystemStdio
         /\ patched \subseteq AllPlaces
         /\ installed \cup unfit \subseteq Unnumbered \cup {"Memory", "bWithoutPrefixNL"}
         /\ spoiled \in BOOLEAN /\ stdio \in {SystemStdio} \cup LowStdio .. HighStdio
<1>1. InstalledBefore(at)
  BY PatchingFacts
<1>2. TypeOK
  BY DEF IInv
<1>3. /\ installed = ActiveBefore(at) \cap Unnumbered
      /\ patched = Reached(ActiveBefore(at))
      /\ IF "iMaxStdio" \in Before(at)
         THEN stdio \in {SystemStdio, Clamp(value["iMaxStdio"])}
         ELSE stdio = SystemStdio
  BY <1>1 DEF InstalledBefore, ActiveBefore, Reached
<1> QED
  BY <1>2, <1>3 DEF TypeOK, AllPlaces

\* The invariant after a turn, in the same terms.
LEMMA AfterTurn ==
  ASSUME IInv, Patching, UNCHANGED <<value, library>>, at' = at + 1,
         unfit' \subseteq Tried(at + 1),
         NEW A, A = ((AskedBefore(at + 1) \cup
                      {o \in {"bMemoryManager", "bAudioAllocator"} :
                          value[o] = 1 /\ "Memory" \in Before(at + 1) \ unfit'}) \ unfit'),
         installed' = A \cap Unnumbered,
         patched' = Reached(A),
         IF "iMaxStdio" \in Before(at + 1)
         THEN stdio' \in {SystemStdio, Clamp(value["iMaxStdio"])}
         ELSE stdio' = SystemStdio
  PROVE  InstalledBefore(at)'
<1>1. Before(at)' = Before(at + 1) /\ Tried(at)' = Tried(at + 1)
  BY DEF Before, Tried
<1>2. AskedBefore(at)' = AskedBefore(at + 1)
  BY <1>1 DEF AskedBefore, Wanted
<1>3. MemoryBefore(at)' =
        {o \in {"bMemoryManager", "bAudioAllocator"} :
            value[o] = 1 /\ "Memory" \in Before(at + 1) \ unfit'}
  BY <1>1 DEF MemoryBefore
<1>4. patched' = {id \in UNION {PlacesOf(p) : p \in A} : Writable(id)'}
  BY DEF Reached, Writable, Known
<1>5. Clamp(value["iMaxStdio"])' = Clamp(value["iMaxStdio"])
  OBVIOUS
<1> QED
  BY <1>1, <1>2, <1>3, <1>4, <1>5 DEF InstalledBefore

\* What was asked for before the next place: the same, and perhaps the patch here.
LEMMA AskedNext ==
  ASSUME IInv, Patching
  PROVE  /\ Wanted(Now, value) => AskedBefore(at + 1) = AskedBefore(at) \cup {Now}
         /\ ~Wanted(Now, value) => AskedBefore(at + 1) = AskedBefore(at)
         /\ AskedBefore(at) \subseteq Before(at)
BY PatchingFacts DEF AskedBefore

\* A patch that is not wanted has its turn.
LEMMA SkipInv ==
  ASSUME IInv, Skip
  PROVE  IInv'
<1> USE DEF settingsVars, patchVars
<1>1. /\ Patching /\ ~Wanted(Now, value) /\ at' = at + 1
      /\ UNCHANGED <<settingsVars, pc, open, patchVars>>
  BY DEF Skip
<1>2. Now \notin {"DataHandler", "iMaxStdio"}
      /\ (Now = "Memory" => value["bMemoryManager"] # 1 /\ value["bAudioAllocator"] # 1)
  BY <1>1 DEF Wanted
<1>3. AskedBefore(at + 1) = AskedBefore(at)
  BY <1>1, AskedNext
<1>4. {o \in {"bMemoryManager", "bAudioAllocator"} :
          value[o] = 1 /\ "Memory" \in Before(at + 1) \ unfit'} = MemoryBefore(at)
  <2>1. CASE Now = "Memory"
    BY <1>1, <1>2, <2>1 DEF MemoryBefore
  <2>2. CASE Now # "Memory"
    BY <1>1, <2>2, PatchingFacts DEF MemoryBefore
  <2> QED
    BY <2>1, <2>2
<1>5. "iMaxStdio" \in Before(at + 1) <=> "iMaxStdio" \in Before(at)
  BY <1>1, <1>2, PatchingFacts
<1>6. InstalledBefore(at)'
  <2>1. PICK A : A = ActiveBefore(at)
    OBVIOUS
  <2>2. unfit' \subseteq Tried(at + 1)
    BY <1>1, PatchingFacts
  <2> QED
    BY <1>1, <1>3, <1>4, <1>5, <2>1, <2>2, BeforeTurn, AfterTurn DEF ActiveBefore
<1> QED
  BY <1>1, <1>6, BeforeTurn, PatchingStep

\* A patch other than Memory is installed and fits: it is active, and nothing else
\* becomes so.
LEMMA ActiveWith ==
  ASSUME IInv, Patching, Wanted(Now, value), Now # "Memory"
  PROVE  ((AskedBefore(at + 1) \cup
             {o \in {"bMemoryManager", "bAudioAllocator"} :
                 value[o] = 1 /\ "Memory" \in Before(at + 1) \ unfit}) \ unfit)
           = ActiveBefore(at) \cup {Now}
<1>1. MemoryBefore(at) =
        {o \in {"bMemoryManager", "bAudioAllocator"} :
            value[o] = 1 /\ "Memory" \in Before(at + 1) \ unfit}
  BY PatchingFacts DEF MemoryBefore
<1>2. Now \notin unfit
  BY PatchingFacts
<1> QED
  BY <1>1, <1>2, AskedNext DEF ActiveBefore

\* A patch that turns out not to fit: nothing becomes active.
LEMMA ActiveWithout ==
  ASSUME IInv, Patching, Wanted(Now, value)
  PROVE  ((AskedBefore(at + 1) \cup
             {o \in {"bMemoryManager", "bAudioAllocator"} :
                 value[o] = 1 /\ "Memory" \in Before(at + 1) \ (unfit \cup {Now})})
            \ (unfit \cup {Now}))
           = ActiveBefore(at)
<1>1. MemoryBefore(at) =
        {o \in {"bMemoryManager", "bAudioAllocator"} :
            value[o] = 1 /\ "Memory" \in Before(at + 1) \ (unfit \cup {Now})}
  BY PatchingFacts DEF MemoryBefore
<1>2. Now \notin MemoryBefore(at) /\ Now \notin AskedBefore(at)
  BY PatchingFacts, AskedNext DEF MemoryBefore
<1> QED
  BY <1>1, <1>2, AskedNext DEF ActiveBefore

\* The patches that write to functions of the library, and do not look at them.
LEMMA InstallNumberedInv ==
  ASSUME IInv, Patching, Wanted(Now, value), at' = at + 1,
         UNCHANGED <<settingsVars, pc, open, library>>, InstallNumbered(Now)
  PROVE  IInv'
<1> USE DEF settingsVars
<1>1. /\ Now \notin {"Memory", "bWithoutPrefixNL", "iMaxStdio"} \cup Unnumbered
      /\ Write(PlacesOf(Now)) /\ UNCHANGED <<installed, unfit, stdio>>
  BY DEF InstallNumbered
<1>2. PlacesOf(Now) \subseteq Places(On) /\ PlacesOf(Now) \subseteq AllPlaces
  BY AskedIsOn
<1>3. /\ patched' = patched \cup {id \in PlacesOf(Now) : Writable(id)}
      /\ spoiled' \in BOOLEAN
      /\ spoiled' => spoiled \/ \E id \in Places(On) : BehindTable(id)
  BY <1>1, <1>2, WriteFacts
<1>4. PICK A : A = ActiveBefore(at) \cup {Now}
  OBVIOUS
<1>5. installed' = A \cap Unnumbered /\ patched' = Reached(A)
  BY <1>1, <1>3, <1>4, BeforeTurn, ReachedWith
<1>6. "iMaxStdio" \in Before(at + 1) <=> "iMaxStdio" \in Before(at)
  BY <1>1, PatchingFacts
<1>7. InstalledBefore(at)'
  <2>1. unfit' \subseteq Tried(at + 1)
    BY <1>1, PatchingFacts
  <2> QED
    BY <1>1, <1>4, <1>5, <1>6, <2>1, ActiveWith, BeforeTurn, AfterTurn
<1>8. patched' \subseteq AllPlaces
  BY <1>2, <1>3, BeforeTurn
<1> QED
  BY <1>1, <1>3, <1>7, <1>8, BeforeTurn, PatchingStep

\* Memory, with its two parts.
LEMMA InstallMemoryInv ==
  ASSUME IInv, Patching, Wanted(Now, value), at' = at + 1,
         UNCHANGED <<settingsVars, pc, open, library>>, InstallMemory
  PROVE  IInv'
<1> USE DEF settingsVars
<1>1. Now = "Memory" /\ UNCHANGED stdio
  BY DEF InstallMemory
<1>2. "iMaxStdio" \in Before(at + 1) <=> "iMaxStdio" \in Before(at)
  BY <1>1, PatchingFacts
<1>3. CASE unfit' = unfit \cup {"Memory"} /\ UNCHANGED <<patched, installed, spoiled>>
  <2>1. PICK A : A = ActiveBefore(at)
    OBVIOUS
  <2>2. unfit' \subseteq Tried(at + 1)
    BY <1>1, <1>3, PatchingFacts
  <2>3. InstalledBefore(at)'
    BY <1>1, <1>2, <1>3, <2>1, <2>2, ActiveWithout, BeforeTurn, AfterTurn
  <2> QED
    BY <1>1, <1>3, <2>3, BeforeTurn, PatchingStep
<1>4. CASE /\ ReplaceRuntime
           /\ IF value["bAudioAllocator"] = 1
              THEN Write(PlacesOf("bAudioAllocator"))
              ELSE UNCHANGED <<patched, spoiled>>
  <2>1. {"bMemoryManager", "bAudioAllocator"} \subseteq Options
    BY SomeOptions
  <2>2. PICK B : B = {o \in {"bMemoryManager", "bAudioAllocator"} : value[o] = 1}
    OBVIOUS
  <2>3. PICK lost \in SUBSET ({"bMemoryManager"} \cap B) :
            /\ unfit' = unfit \cup lost
            /\ installed' = installed \cup (({"bMemoryManager"} \cap B) \ lost)
    <3>1. CASE installed' = installed \cup {"bMemoryManager"} /\ unfit' = unfit
               /\ value["bMemoryManager"] = 1
      <4>1. WITNESS {} \in SUBSET ({"bMemoryManager"} \cap B)
      <4> QED
        BY <2>2, <3>1
    <3>2. CASE installed' = installed /\ unfit' = unfit \cup {"bMemoryManager"}
               /\ value["bMemoryManager"] = 1
      <4>1. {"bMemoryManager"} \in SUBSET ({"bMemoryManager"} \cap B)
        BY <2>2, <3>2
      <4> QED
        BY <2>2, <3>2, <4>1
    <3>3. CASE installed' = installed /\ unfit' = unfit /\ value["bMemoryManager"] # 1
      <4>1. {"bMemoryManager"} \cap B = {}
        BY <2>2, <3>3
      <4> QED
        BY <3>3, <4>1
    <3> QED
      BY <1>4, <3>1, <3>2, <3>3 DEF ReplaceRuntime
  <2>4. PICK A : A = ActiveBefore(at) \cup {"Memory"} \cup (B \ lost)
    OBVIOUS
  <2>5. ((AskedBefore(at + 1) \cup
            {o \in {"bMemoryManager", "bAudioAllocator"} :
                value[o] = 1 /\ "Memory" \in Before(at + 1) \ unfit'}) \ unfit') = A
    <3>1. "Memory" \notin unfit' /\ B \cap unfit = {}
      BY <1>1, <2>2, <2>3, PatchingFacts
    <3>2. B = {o \in {"bMemoryManager", "bAudioAllocator"} :
                  value[o] = 1 /\ "Memory" \in Before(at + 1) \ unfit'}
      BY <1>1, <2>2, <3>1, PatchingFacts
    <3>3. MemoryBefore(at) = {}
      BY <1>1, PatchingFacts DEF MemoryBefore
    <3>4. AskedBefore(at) \cap lost = {}
      BY <2>3, AskedNext, PatchingFacts
    <3> QED
      BY <1>1, <2>3, <2>4, <3>1, <3>2, <3>3, <3>4, AskedNext DEF ActiveBefore
  <2>6. installed' = A \cap Unnumbered
    <3>1. "Memory" \notin Unnumbered /\ "bAudioAllocator" \notin Unnumbered
          /\ "bMemoryManager" \in Unnumbered
      BY DEF Unnumbered
    <3> QED
      BY <2>2, <2>3, <2>4, <3>1, BeforeTurn
  <2>7. /\ patched' = patched \cup
              {id \in PlacesOf("bAudioAllocator") :
                  Writable(id) /\ value["bAudioAllocator"] = 1}
        /\ patched' \subseteq AllPlaces /\ spoiled' \in BOOLEAN
        /\ spoiled' => spoiled \/ \E id \in Places(On) : BehindTable(id)
    <3>1. PlacesOf("bAudioAllocator") \subseteq AllPlaces
      BY <2>1, PlacesAsked
    <3>2. CASE value["bAudioAllocator"] = 1
      BY <1>4, <3>1, <3>2, WriteFacts, AskedIsOn, BeforeTurn
    <3>3. CASE value["bAudioAllocator"] # 1
      BY <1>4, <3>3, BeforeTurn
    <3> QED
      BY <3>2, <3>3
  <2>8. patched' = Reached(A)
    <3>1. PlacesOf("Memory") = {} /\ PlacesOf("bMemoryManager") = {}
      BY NoPlaces DEF Unnumbered
    <3> QED
      BY <2>2, <2>3, <2>4, <2>7, <3>1, BeforeTurn DEF Reached
  <2>9. InstalledBefore(at)'
    <3>1. unfit' \subseteq Tried(at + 1)
      BY <1>1, <2>3, PatchingFacts
    <3> QED
      BY <1>1, <1>2, <2>5, <2>6, <2>8, <3>1, BeforeTurn, AfterTurn
  <2>10. installed' \cup unfit' \subseteq Unnumbered \cup {"Memory", "bWithoutPrefixNL"}
    <3>1. "bMemoryManager" \in Unnumbered
      BY DEF Unnumbered
    <3> QED
      BY <2>3, <3>1, BeforeTurn
  <2> QED
    BY <1>1, <2>7, <2>9, <2>10, BeforeTurn, PatchingStep
<1> QED
  BY <1>3, <1>4 DEF InstallMemory

\* The number of files.
LEMMA InstallMaxStdioInv ==
  ASSUME IInv, Patching, Wanted(Now, value), at' = at + 1,
         UNCHANGED <<settingsVars, pc, open, library>>, InstallMaxStdio
  PROVE  IInv'
<1> USE DEF settingsVars
<1>1. /\ Now = "iMaxStdio" /\ stdio' \in {Clamp(value["iMaxStdio"]), stdio}
      /\ UNCHANGED <<patched, installed, unfit, spoiled>>
  BY DEF InstallMaxStdio
<1>2. PICK A : A = ActiveBefore(at) \cup {Now}
  OBVIOUS
<1>3. installed' = A \cap Unnumbered /\ patched' = Reached(A)
  <2>1. Now \notin Unnumbered /\ PlacesOf(Now) = {}
    BY <1>1, NoPlaces DEF Unnumbered
  <2>2. Reached(A) = Reached(ActiveBefore(at))
    BY <1>2, <2>1, ReachedWith
  <2> QED
    BY <1>1, <1>2, <2>1, <2>2, BeforeTurn
<1>4. stdio' \in {SystemStdio, Clamp(value["iMaxStdio"])}
  BY <1>1, BeforeTurn, PatchingFacts
<1>5. stdio' \in {SystemStdio} \cup LowStdio .. HighStdio
  <2>1. value["iMaxStdio"] \in Int
    BY SomeOptions DEF IInv, TypeOK, SettingsTypeOK
  <2> QED
    BY <1>4, <2>1, ClampInLimits
<1>6. InstalledBefore(at)'
  <2>1. unfit' \subseteq Tried(at + 1) /\ "iMaxStdio" \in Before(at + 1)
    BY <1>1, PatchingFacts
  <2> QED
    BY <1>1, <1>2, <1>3, <1>4, <2>1, ActiveWith, AfterTurn
<1> QED
  BY <1>1, <1>5, <1>6, BeforeTurn, PatchingStep

\* The patches that ask the library for nothing.
LEMMA InstallUnnumberedInv ==
  ASSUME IInv, Patching, Wanted(Now, value), at' = at + 1,
         UNCHANGED <<settingsVars, pc, open, library>>, InstallUnnumbered(Now)
  PROVE  IInv'
<1> USE DEF settingsVars
<1>1. /\ Now \in Unnumbered /\ UNCHANGED <<patched, spoiled, stdio>>
      /\ \/ installed' = installed \cup {Now} /\ UNCHANGED unfit
         \/ unfit' = unfit \cup {Now} /\ UNCHANGED installed
  BY DEF InstallUnnumbered
<1>2. Now \notin {"iMaxStdio", "Memory"} /\ PlacesOf(Now) = {}
  BY <1>1, NoPlaces DEF Unnumbered
<1>3. "iMaxStdio" \in Before(at + 1) <=> "iMaxStdio" \in Before(at)
  BY <1>2, PatchingFacts
<1>4. unfit' \subseteq Tried(at + 1)
  BY <1>1, PatchingFacts
<1>5. installed' \cup unfit' \subseteq Unnumbered \cup {"Memory", "bWithoutPrefixNL"}
  BY <1>1, BeforeTurn
<1>6. InstalledBefore(at)'
  <2>1. CASE installed' = installed \cup {Now} /\ UNCHANGED unfit
    <3>1. PICK A : A = ActiveBefore(at) \cup {Now}
      OBVIOUS
    <3>2. installed' = A \cap Unnumbered /\ patched' = Reached(A)
      BY <1>1, <1>2, <2>1, <3>1, BeforeTurn, ReachedWith
    <3> QED
      BY <1>1, <1>2, <1>3, <1>4, <2>1, <3>1, <3>2, ActiveWith, BeforeTurn, AfterTurn
  <2>2. CASE unfit' = unfit \cup {Now} /\ UNCHANGED installed
    <3>1. PICK A : A = ActiveBefore(at)
      OBVIOUS
    <3>2. installed' = A \cap Unnumbered /\ patched' = Reached(A)
      BY <1>1, <2>2, <3>1, BeforeTurn
    <3> QED
      BY <1>1, <1>3, <1>4, <2>2, <3>1, <3>2, ActiveWithout, BeforeTurn, AfterTurn
  <2> QED
    BY <1>1, <2>1, <2>2
<1> QED
  BY <1>1, <1>5, <1>6, BeforeTurn, PatchingStep

\* The patch that looks at the code before it changes it.
LEMMA InstallWithoutPrefixNLInv ==
  ASSUME IInv, Patching, Wanted(Now, value), at' = at + 1,
         UNCHANGED <<settingsVars, pc, open, library>>, InstallWithoutPrefixNL
  PROVE  IInv'
<1> USE DEF settingsVars
<1>1. /\ Now = "bWithoutPrefixNL" /\ UNCHANGED <<installed, stdio>>
      /\ \/ Write(PlacesOf(Now)) /\ UNCHANGED unfit
         \/ unfit' = unfit \cup {Now} /\ UNCHANGED <<patched, spoiled>>
  BY DEF InstallWithoutPrefixNL
<1>2. PlacesOf(Now) \subseteq Places(On) /\ PlacesOf(Now) \subseteq AllPlaces
  BY AskedIsOn
<1>3. "iMaxStdio" \in Before(at + 1) <=> "iMaxStdio" \in Before(at)
  BY <1>1, PatchingFacts
<1>4. unfit' \subseteq Tried(at + 1)
  BY <1>1, PatchingFacts
<1>5. installed' \cup unfit' \subseteq Unnumbered \cup {"Memory", "bWithoutPrefixNL"}
  BY <1>1, BeforeTurn
<1>6. CASE Write(PlacesOf(Now)) /\ UNCHANGED unfit
  <2>1. /\ patched' = patched \cup {id \in PlacesOf(Now) : Writable(id)}
        /\ spoiled' \in BOOLEAN
        /\ spoiled' => spoiled \/ \E id \in Places(On) : BehindTable(id)
    BY <1>2, <1>6, WriteFacts
  <2>2. PICK A : A = ActiveBefore(at) \cup {Now}
    OBVIOUS
  <2>3. installed' = A \cap Unnumbered /\ patched' = Reached(A)
    <3>1. "bWithoutPrefixNL" \notin Unnumbered
      BY DEF Unnumbered
    <3> QED
      BY <1>1, <2>1, <2>2, <3>1, BeforeTurn, ReachedWith
  <2>4. InstalledBefore(at)'
    BY <1>1, <1>3, <1>4, <1>6, <2>2, <2>3, ActiveWith, BeforeTurn, AfterTurn
  <2>5. patched' \subseteq AllPlaces
    BY <1>2, <2>1, BeforeTurn
  <2> QED
    BY <1>1, <1>5, <2>1, <2>4, <2>5, BeforeTurn, PatchingStep
<1>7. CASE unfit' = unfit \cup {Now} /\ UNCHANGED <<patched, spoiled>>
  <2>1. PICK A : A = ActiveBefore(at)
    OBVIOUS
  <2>2. installed' = A \cap Unnumbered /\ patched' = Reached(A)
    BY <1>1, <1>7, <2>1, BeforeTurn
  <2>3. InstalledBefore(at)'
    BY <1>1, <1>3, <1>4, <1>7, <2>1, <2>2, ActiveWithout, BeforeTurn, AfterTurn
  <2> QED
    BY <1>1, <1>5, <1>7, <2>3, BeforeTurn, PatchingStep
<1> QED
  BY <1>1, <1>6, <1>7

\* A turn of the installation.
LEMMA InstallStepInv ==
  ASSUME IInv, Install
  PROVE  IInv'
<1>1. /\ Patching /\ Wanted(Now, value) /\ at' = at + 1
      /\ UNCHANGED <<settingsVars, pc, open, library>>
      /\ \/ InstallNumbered(Now) \/ InstallMemory \/ InstallMaxStdio
         \/ InstallUnnumbered(Now) \/ InstallWithoutPrefixNL
  BY DEF Install
<1>2. CASE InstallNumbered(Now)
  BY <1>1, <1>2, InstallNumberedInv
<1>3. CASE InstallMemory
  BY <1>1, <1>3, InstallMemoryInv
<1>4. CASE InstallMaxStdio
  BY <1>1, <1>4, InstallMaxStdioInv
<1>5. CASE InstallUnnumbered(Now)
  BY <1>1, <1>5, InstallUnnumberedInv
<1>6. CASE InstallWithoutPrefixNL
  BY <1>1, <1>6, InstallWithoutPrefixNLInv
<1> QED
  BY <1>1, <1>2, <1>3, <1>4, <1>5, <1>6

\* A crash: something the patch asks for has no address.
LEMMA CrashInv ==
  ASSUME IInv, Crash
  PROVE  IInv'
<1> USE DEF settingsVars, patchVars
<1>1. /\ Patching /\ Wanted(Now, value) /\ pc' = "crashed"
      /\ UNCHANGED <<settingsVars, at, open, patchVars>>
      /\ \/ MayFault(AskedOf(Now)) /\ (Now = "Memory" => value["bAudioAllocator"] = 1)
         \/ ~open
  BY DEF Crash
<1>2. \E id \in Places(On) : ~Known(id)
  <2>1. CASE MayFault(AskedOf(Now)) /\ (Now = "Memory" => value["bAudioAllocator"] = 1)
    <3>1. PICK id \in AskedOf(Now) :
            (~HasAddress(id) /\ ~BehindTable(id)) \/ BehindTable(id)
      BY <2>1 DEF MayFault, NearNull
    <3>2. id \in Places(On) /\ id \in Nat
      BY <1>1, <2>1, <3>1, AskedIsOn, PlacesAsked DEF AskedOf
    <3>3. HasAddress(id) <=> Known(id)
      BY <1>1, <3>2, PatchingFacts
    <3>4. BehindTable(id) => ~Known(id)
      BY <1>1, <3>2, PatchingFacts DEF BehindTable, Known
    <3> QED
      BY <3>1, <3>2, <3>3, <3>4
  <2>2. CASE ~open
    <3>1. 407436 \in Places(On)
      BY DEF Places, PlacesOf
    <3>2. ~Known(407436)
      BY <1>1, <2>2, PatchingFacts DEF Known
    <3> QED
      BY <3>1, <3>2
  <2> QED
    BY <1>1, <2>1, <2>2
<1>3. Effective' = Effective /\ Places(On)' = Places(On)
  BY <1>1, SameReading
<1>4. TypeOK'
  BY <1>1 DEF IInv, TypeOK, SettingsTypeOK
<1>5. LoadInv' /\ ListInv'
  BY <1>1, <1>3, PatchingFacts DEF IInv, LoadInv, ListInv
<1>6. InstallInv'
  BY <1>1 DEF InstallInv
<1>7. FailsOnlyWithoutAddresses'
  <2>1. \E id \in Places(On) : ~Known(id)'
    BY <1>1, <1>2 DEF Known
  <2> QED
    BY <1>1, <1>3, <2>1 DEF IInv, FailsOnlyWithoutAddresses
<1> QED
  BY <1>4, <1>5, <1>6, <1>7 DEF IInv

\* The end of the installation.
LEMMA ReleaseInv ==
  ASSUME IInv, Release
  PROVE  IInv'
<1> USE DEF settingsVars, patchVars
<1>1. /\ pc = "patching" /\ at > Len(InstallOrder) /\ pc' = "ended" /\ open' = FALSE
      /\ UNCHANGED <<settingsVars, at, patchVars>>
  BY DEF Release
<1>2. at = 16
  <2>1. at \in 1 .. Len(InstallOrder) + 1
    BY DEF IInv, TypeOK
  <2> QED
    BY <1>1, <2>1, InstallOrderFacts
<1>3. Effective' = Effective /\ Places(On)' = Places(On)
  BY <1>1, SameReading
<1>4. TypeOK'
  BY <1>1 DEF IInv, TypeOK, SettingsTypeOK
<1>5. LoadInv' /\ ListInv'
  BY <1>1, <1>3 DEF IInv, LoadInv, ListInv
<1>6. InstallInv'
  <2>1. InstalledBefore(at)
    BY <1>1 DEF IInv, InstallInv
  <2>2. InstalledBefore(Len(InstallOrder) + 1)
    BY <1>2, <2>1, InstallOrderFacts
  <2>3. InstalledBefore(Len(InstallOrder) + 1)'
    BY <1>1, <2>2 DEF InstalledBefore, AskedBefore, MemoryBefore, Wanted, Writable, Known
  <2> QED
    BY <1>1, <2>3 DEF InstallInv
<1>7. FailsOnlyWithoutAddresses'
  BY <1>1, <1>3 DEF IInv, FailsOnlyWithoutAddresses
<1> QED
  BY <1>4, <1>5, <1>6, <1>7 DEF IInv

\* Every step keeps the invariant.
LEMMA NextInv == IInv /\ [Next]_vars => IInv'
<1> SUFFICES ASSUME IInv, [Next]_vars
             PROVE  IInv'
  OBVIOUS
<1>1. CASE Refuse \/ OpenAddressLibrary \/ ListNext
  BY <1>1, ListingInv
<1>2. CASE StartLoading
  BY <1>2, StartLoadingInv
<1>3. CASE GoOnLoading
  BY <1>3, GoOnLoadingInv
<1>4. CASE EndLoading
  BY <1>4, EndLoadingInv
<1>5. CASE Skip
  BY <1>5, SkipInv
<1>6. CASE Install
  BY <1>6, InstallStepInv
<1>7. CASE Crash
  BY <1>7, CrashInv
<1>8. CASE Release
  BY <1>8, ReleaseInv
<1>9. CASE UNCHANGED vars
  <2> USE <1>9 DEF vars, settingsVars, patchVars
  <2>1. Effective' = Effective /\ LoadedBelow(next)' = LoadedBelow(next)
        /\ Places(On)' = Places(On)
    BY SameReading DEF LoadedBelow
  <2>2. TypeOK'
    BY DEF IInv, TypeOK, SettingsTypeOK
  <2>3. LoadInv'
    BY <2>1 DEF IInv, LoadInv
  <2>4. InstallInv'
    BY DEF IInv, InstallInv, InstalledBefore, Before, Tried, AskedBefore, MemoryBefore,
           Wanted, Writable, Known
  <2>5. FailsOnlyWithoutAddresses'
    BY <2>1 DEF IInv, FailsOnlyWithoutAddresses, Known
  <2>6. ListInv'
    BY DEF IInv, ListInv, Offered
  <2> QED
    BY <2>2, <2>3, <2>4, <2>5, <2>6 DEF IInv
<1> QED
  BY <1>1, <1>2, <1>3, <1>4, <1>5, <1>6, <1>7, <1>8, <1>9 DEF Next

-----------------------------------------------------------------------------
(* The theorems *)

\* The start keeps what it has read and installed so far apart from what it has
\* not come to yet (dllmain.cpp, Start; TSettings.cpp, LoadFromFile).
THEOREM StartUpInvariant == Spec => []IInv
BY InitInv, NextInv, PTL DEF Spec

\* The start keeps its types.
THEOREM StartUpTypeCorrect == Spec => []TypeOK
<1>1. IInv => TypeOK
  BY DEF IInv
<1> QED
  BY <1>1, StartUpInvariant, PTL

\* After loading, each setting has the value that the file gives it, but for those that
\* Overlooked names: bFFXQueryCrash, one that Add refuses, and those that a section
\* which is no table keeps from being read, whatever the order of the hashes
\* (TSettings.cpp, LoadFromFile).
THEOREM ValuesAreLoaded == Spec => []LoadedAsFile
<1>1. IInv => LoadedAsFile
  BY EffectiveIsFromFile DEF IInv, ListInv, LoadInv, LoadedAsFile
<1> QED
  BY <1>1, StartUpInvariant, PTL

\* At the end exactly the patches that the file turns on, and that fit, are installed,
\* at each function that can be written to; but the fix bFFXQueryCrash, and what else
\* Overlooked names, follows its default instead (dllmain.cpp, Start).
THEOREM InstalledAsFile == Spec => []ActiveAsFile
<1>1. ASSUME IInv, pc = "ended"
      PROVE  ActiveAsFile
  <2> DEFINE out == IF "Memory" \in unfit
                    THEN unfit \cup {"bMemoryManager", "bAudioAllocator"} ELSE unfit
  <2>1. value = FromFile /\ InstalledBefore(Len(InstallOrder) + 1)
    BY <1>1, EffectiveIsFromFile DEF IInv, ListInv, LoadInv, InstallInv
  <2>2. PICK n : n = Len(InstallOrder) + 1
    OBVIOUS
  <2>3. Before(n) = (Options \ {"bMemoryManager", "bAudioAllocator"})
                      \cup {"DataHandler", "Memory"}
    <3>1. Before(n) = {InstallOrder[j] : j \in 1 .. 15}
      BY <2>2, InstallOrderFacts DEF Before
    <3>2. \A p \in (Options \ {"bMemoryManager", "bAudioAllocator"})
                      \cup {"DataHandler", "Memory"} :
            \E j \in 1 .. 15 : InstallOrder[j] = p
      BY SomeOptions DEF InstallOrder
    <3> QED
      BY <3>1, <3>2, InstallOrderFacts
  <2>4. /\ {"bMemoryManager", "bAudioAllocator", "iMaxStdio"} \subseteq Options
        /\ "DataHandler" \notin Options /\ "Memory" \notin Options
    BY SomeOptions
  <2>5. "DataHandler" \notin unfit
    <3>1. unfit \subseteq Unnumbered \cup {"Memory", "bWithoutPrefixNL"}
      BY <1>1 DEF IInv, TypeOK
    <3> QED
      BY <3>1 DEF Unnumbered
  <2>6. PICK active : active = (AskedBefore(n) \cup MemoryBefore(n)) \ unfit
    OBVIOUS
  <2>7. active \ {"Memory", "iMaxStdio"} = (On \ out) \cup {"DataHandler"}
    <3>1. AskedBefore(n) \ {"Memory", "iMaxStdio"} =
            (On \ {"bMemoryManager", "bAudioAllocator"}) \cup {"DataHandler"}
      BY <2>1, <2>3, <2>4 DEF AskedBefore, Wanted, On
    <3>2. MemoryBefore(n) = IF "Memory" \in unfit THEN {}
                            ELSE On \cap {"bMemoryManager", "bAudioAllocator"}
      BY <2>1, <2>3, <2>4 DEF MemoryBefore, On
    <3> QED
      BY <2>4, <2>5, <2>6, <3>1, <3>2
  <2>8. /\ installed = active \cap Unnumbered
        /\ patched = {id \in UNION {PlacesOf(p) : p \in active} : Writable(id)}
        /\ stdio \in {SystemStdio, Clamp(FromFile["iMaxStdio"])}
    BY <2>1, <2>2, <2>3, <2>4, <2>6 DEF InstalledBefore
  <2>9. installed = (On \ out) \cap Unnumbered
    <3>1. {"Memory", "iMaxStdio", "DataHandler"} \cap Unnumbered = {}
      BY DEF Unnumbered
    <3> QED
      BY <2>7, <2>8, <3>1
  <2>10. UNION {PlacesOf(p) : p \in active} = Places(On \ out)
    <3>1. PlacesOf("Memory") = {} /\ PlacesOf("iMaxStdio") = {}
      BY NoPlaces
    <3>2. \A id : (\E p \in active : id \in PlacesOf(p))
                    <=> \E p \in (On \ out) \cup {"DataHandler"} : id \in PlacesOf(p)
      BY <2>7, <3>1
    <3> QED
      BY <3>2 DEF Places
  <2> QED
    BY <2>8, <2>9, <2>10 DEF ActiveAsFile, Writable
<1>2. IInv => ActiveAsFile
  BY <1>1 DEF ActiveAsFile
<1> QED
  BY <1>2, StartUpInvariant, PTL

\* The start crashes, or writes where it should not, only when the library of
\* addresses lacks something that is asked of it (TRelocation.cpp, ID).
THEOREM FailsOnlyForAddresses == Spec => []FailsOnlyWithoutAddresses
<1>1. IInv => FailsOnlyWithoutAddresses
  BY DEF IInv
<1> QED
  BY <1>1, StartUpInvariant, PTL
=============================================================================
