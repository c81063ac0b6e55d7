--------------------------- MODULE OtaUpdate_proofs ---------------------------
(***************************************************************************)
(* Proofs about the recorder's updates for any releases, good and bad, and *)
(* any number of losses of power and of markers that cannot be written: a  *)
(* release that passed its self-test stays, and as long as every marker    *)
(* was written a rejected one is not started again.                        *)
(***************************************************************************)
EXTENDS OtaUpdate, TLAPS

-----------------------------------------------------------------------------
(* The inductive invariant, in parts.                                      *)
Entries == [slot : Slots, state : {"new", "pending", "valid", "aborted"}]
Rams ==
  [activity : {"idle", "voice", "ota", "storage"}, boot : {"checking", "clearing", "done"},
   ticks : 0 .. 3, disabled : BOOLEAN, rejected : Releases \cup {0},
   pc : {"check", "offer", "begin", "write", "switch", "mark"},
   cand : Releases \cup {NoRelease}]
Installing == ram.pc \in {"begin", "write", "switch", "mark"}

(* The newest entry of a confirmed image is what the boot loader comes     *)
(* down to in the end: its slot is whole, and it is the running one unless *)
(* that is an image under test.                                            *)
IsFirst(i) ==
  /\ i \in DOMAIN otadata /\ otadata[i].state = "valid"
  /\ \A j \in DOMAIN otadata : j < i => otadata[j].state # "valid"
ConfirmedInv ==
  \A i \in 1 .. 2 : IsFirst(i) =>
    /\ flash[otadata[i].slot] \in proven
    /\ ~Pending => run = otadata[i].slot

(* The boot loader has aborted what came before the image under test.      *)
TestedInv ==
  \A i \in DOMAIN otadata : otadata[i] = [slot |-> run, state |-> "pending"] =>
    \A j \in DOMAIN otadata : j < i => otadata[j].state = "aborted"

(* No image is under test after voice_ota_confirm_boot; the task works     *)
(* only then, and installs while it has the gate.                          *)
TaskInv ==
  /\ ram.boot # "checking" => ~Pending
  /\ ram.pc # "check" => Confirmed /\ ~ram.disabled
  /\ Installing => ram.activity = "ota" /\ ram.cand # NoRelease
  /\ ram.pc \in {"switch", "mark"} => flash[Other(run)] = ram.cand

(* As long as every marker was written: there is such an entry, before it  *)
(* is only what was aborted, is under test or was just switched to.        *)
Before(j) ==
  \/ otadata[j].state = "aborted"
  \/ otadata[j] = [slot |-> run, state |-> "pending"]
  \/ ram.pc = "mark" /\ otadata[j] = [slot |-> Other(run), state |-> "new"]
MarkedInv ==
  /\ HasConfirmed
  /\ \A i \in 1 .. 2 : IsFirst(i) => \A j \in DOMAIN otadata : j < i => Before(j)

(* The task knows what NVS holds as rejected.                              *)
RejectedInv ==
  /\ ram.boot # "checking" /\ ~ram.disabled => ram.rejected = nvs.rejected
  /\ Installing => ram.cand > nvs.rejected

EntriesInv == otadata \in Seq(Entries) /\ Len(otadata) \in 1 .. 2
RunInv == Current # Torn

IInv ==
  /\ TypeOK /\ EntriesInv /\ RunInv
  /\ ConfirmedInv /\ TestedInv /\ TaskInv /\ RejectedInv
  /\ ~unmarked => MarkedInv

(* What a step may do to the running image (RejectedIsFinal).              *)
StartsWell ==
  ~unmarked' /\ flash'[run'] # Current =>
    flash'[run'] > nvs.rejected \/ flash'[run'] \in proven

-----------------------------------------------------------------------------
(* The boot loader's operators.                                            *)
LEMMA ChoiceIs ==
  ASSUME NEW e \in Seq(Entries), Len(e) \in 1 .. 2
  PROVE  /\ Choice(e) \in 0 .. Len(e)
         /\ Choice(e) = 0 <=> \A i \in 1 .. Len(e) : e[i].state = "aborted"
         /\ Choice(e) # 0 => /\ e[Choice(e)].state # "aborted"
                             /\ \A j \in 1 .. Len(e) : j < Choice(e) => e[j].state = "aborted"
<1> DEFINE usable == {i \in DOMAIN e : e[i].state # "aborted"}
<1>1. usable \subseteq 1 .. 2 /\ DOMAIN e = 1 .. Len(e)
  OBVIOUS
<1>2. CASE usable = {}
  <2>1. Choice(e) = 0
    BY <1>2 DEF Choice
  <2>2. QED
    BY <1>1, <1>2, <2>1
<1>3. CASE usable # {}
  <2>1. \E i \in usable : \A j \in usable : i <= j
    <3>1. CASE 1 \in usable
      BY <1>1, <3>1
    <3>2. CASE 1 \notin usable
      BY <1>1, <1>3, <3>2
    <3>3. QED
      BY <3>1, <3>2
  <2>2. Choice(e) = CHOOSE i \in usable : \A j \in usable : i <= j
    BY <1>3 DEF Choice
  <2>3. Choice(e) \in usable /\ \A j \in usable : Choice(e) <= j
    BY <2>1, <2>2
  <2>4. QED
    BY <1>1, <2>3
<1>4. QED
  BY <1>2, <1>3

LEMMA AbortedIs ==
  ASSUME NEW e \in Seq(Entries), Len(e) \in 1 .. 2
  PROVE  /\ Aborted(e) \in Seq(Entries) /\ Len(Aborted(e)) = Len(e)
         /\ \A i \in 1 .. Len(e) :
              /\ Aborted(e)[i].slot = e[i].slot
              /\ Aborted(e)[i].state = IF e[i].state = "pending" THEN "aborted" ELSE e[i].state
<1>1. DOMAIN e = 1 .. Len(e) /\ \A i \in 1 .. Len(e) : e[i] \in Entries
  OBVIOUS
<1>2. \A i \in 1 .. Len(e) : Aborted(e)[i] \in Entries
  BY <1>1 DEF Aborted, Entries
<1>3. Aborted(e) = [i \in 1 .. Len(e) |-> Aborted(e)[i]]
  BY <1>1 DEF Aborted
<1>4. Aborted(e) \in Seq(Entries) /\ Len(Aborted(e)) = Len(e)
  BY <1>2, <1>3
<1>5. QED
  BY <1>1, <1>4 DEF Aborted, Entries

LEMMA StartedIs ==
  ASSUME NEW e \in Seq(Entries), Len(e) \in 1 .. 2
  PROVE  /\ Started(e) \in Seq(Entries) /\ Len(Started(e)) = Len(e)
         /\ \A i \in 1 .. Len(e) :
              /\ Started(e)[i].slot = e[i].slot
              /\ Started(e)[i].state = IF i = Choice(e) /\ e[i].state = "new" THEN "pending"
                                       ELSE e[i].state
<1>1. CASE Choice(e) # 0 /\ e[Choice(e)].state = "new"
  <2>1. Started(e) = [e EXCEPT ![Choice(e)].state = "pending"] /\ Choice(e) \in 1 .. Len(e)
    BY <1>1, ChoiceIs DEF Started
  <2> DEFINE c == Choice(e)
             x == [e[c] EXCEPT !.state = "pending"]
  <2>2. DOMAIN e = 1 .. Len(e) /\ \A i \in 1 .. Len(e) : e[i] \in Entries
    OBVIOUS
  <2>3. x \in Entries /\ x.slot = e[c].slot /\ x.state = "pending"
    BY <2>1, <2>2 DEF Entries
  <2>4. Started(e) = [e EXCEPT ![c] = x]
    BY <2>1
  <2> HIDE DEF x, c
  <2>6. \A i \in 1 .. Len(e) : Started(e)[i] = IF i = c THEN x ELSE e[i]
    BY <2>2, <2>4
  <2>e. Started(e) = [i \in 1 .. Len(e) |-> Started(e)[i]]
    BY <2>2, <2>4
  <2>5. Started(e) \in Seq(Entries) /\ Len(Started(e)) = Len(e)
    BY <2>2, <2>3, <2>6, <2>e
  <2>7. QED
    BY <1>1, <2>3, <2>5, <2>6 DEF c
<1>2. CASE ~(Choice(e) # 0 /\ e[Choice(e)].state = "new")
  BY <1>2 DEF Started
<1>3. QED
  BY <1>1, <1>2

LEMMA SetBootIs ==
  ASSUME EntriesInv, NEW slot \in Slots, SetBoot(slot)
  PROVE  /\ EntriesInv' /\ otadata'[1] = [slot |-> slot, state |-> "new"]
         /\ Len(otadata') = IF Choice(otadata) = 0 THEN 1 ELSE 2
         /\ Choice(otadata) # 0 => otadata'[2] = otadata[Choice(otadata)]
<1> DEFINE n == [slot |-> slot, state |-> "new"]
<1>0. n \in Entries /\ Choice(otadata) \in 0 .. Len(otadata)
  BY ChoiceIs DEF EntriesInv, Entries
<1>1. CASE Choice(otadata) = 0
  <2>1. otadata' = <<n>> \o << >>
    BY <1>1 DEF SetBoot
  <2>2. QED
    BY <1>0, <1>1, <2>1 DEF EntriesInv
<1>2. CASE Choice(otadata) # 0
  <2> DEFINE x == otadata[Choice(otadata)]
  <2>1. otadata' = <<n>> \o <<x>>
    BY <1>2 DEF SetBoot
  <2>2. x \in Entries
    BY <1>0, <1>2 DEF EntriesInv
  <2> HIDE DEF n, x
  <2>3. <<n>> \in Seq(Entries) /\ <<x>> \in Seq(Entries) /\ Len(<<n>>) = 1 /\ Len(<<x>>) = 1
    BY <1>0, <2>2
  <2>4. otadata' \in Seq(Entries) /\ Len(otadata') = 2
    BY <2>1, <2>3
  <2>5. otadata'[1] = n /\ otadata'[2] = x
    BY <2>1, <2>3
  <2>6. QED
    BY <1>2, <2>4, <2>5 DEF EntriesInv, n, x
<1>3. QED
  BY <1>1, <1>2

LEMMA SlotsAre ==
  /\ \A s \in Slots : Other(s) \in Slots /\ Other(s) # s /\ Other(Other(s)) = s
  /\ \A s, t \in Slots : s # t => t = Other(s)
BY DEF Slots, Other

LEMMA TypesAre ==
  ASSUME ReleasesAssumption, TypeOK, EntriesInv
  PROVE  /\ DOMAIN otadata = 1 .. Len(otadata) /\ \A i \in DOMAIN otadata : otadata[i] \in Entries
         /\ run \in Slots /\ \A s \in Slots : flash[s] \in Nat
         /\ Torn \notin proven /\ nvs.rejected \in Nat /\ nvs.attempted \in Nat
         /\ ram.rejected \in Nat /\ ram.cand \in Nat /\ proven \subseteq Nat
<1>1. DOMAIN otadata = 1 .. Len(otadata) /\ \A i \in DOMAIN otadata : otadata[i] \in Entries
  BY DEF EntriesInv
<1>2. Releases \subseteq Nat \ {0} /\ proven \subseteq Releases
  BY DEF ReleasesAssumption, TypeOK
<1>3. \A s \in Slots : flash[s] \in Releases \cup {0}
  BY DEF TypeOK, Torn
<1>4. /\ nvs.rejected \in Releases \cup {0} /\ nvs.attempted \in Releases \cup {0}
      /\ ram.rejected \in Releases \cup {0} /\ ram.cand \in Releases \cup {0}
  BY DEF TypeOK, NoRelease
<1>5. run \in Slots
  BY DEF TypeOK
<1>6. Torn \notin proven /\ proven \subseteq Nat
  BY <1>2 DEF Torn
<1>7. \A x \in Releases \cup {0} : x \in Nat
  BY <1>2
<1>8. QED
  BY <1>1, <1>3, <1>4, <1>5, <1>6, <1>7


(* A boot: the image it starts is whole; it is the one of the newest entry *)
(* of a confirmed image, or it is under test.                              *)
LEMMA BootSlotIs ==
  ASSUME ReleasesAssumption, IInv, NEW slot, slot = BootSlot(Aborted(otadata))
  PROVE  slot \in Slots /\ flash[slot] # Torn
<1> DEFINE a == Aborted(otadata)
           wanted == IF Choice(a) = 0 THEN 1 ELSE a[Choice(a)].slot
<1>1. a \in Seq(Entries) /\ Len(a) \in 1 .. 2 /\ Choice(a) \in 0 .. Len(a)
  BY AbortedIs, ChoiceIs DEF IInv, EntriesInv
<1>2. wanted \in Slots
  <2>1. CASE Choice(a) = 0
    BY <2>1 DEF Slots
  <2>2. CASE Choice(a) # 0
    <3>1. a[Choice(a)] \in Entries
      BY <1>1, <2>2
    <3>2. QED
      BY <2>2, <3>1 DEF Entries
  <2>3. QED
    BY <2>1, <2>2
<1>3. slot = IF flash[wanted] # Torn THEN wanted ELSE Other(wanted)
  BY DEF BootSlot
<1>4. run \in Slots /\ flash[run] # Torn
  BY DEF IInv, TypeOK, RunInv, Current
<1>5. QED
  BY <1>2, <1>3, <1>4, SlotsAre

LEMMA BootKeeps ==
  ASSUME ReleasesAssumption, FaultsAssumption, IInv, Boot,
         UNCHANGED <<flash, offered, proven, unmarked>>, faults' \in 0 .. MaxFaults,
         nvs' \in [attempted : Releases \cup {0}, rejected : Releases \cup {0}]
  PROVE  IInv' /\ StartsWell
<1> DEFINE a == Aborted(otadata)
           c == Choice(a)
<1>1. /\ a \in Seq(Entries) /\ Len(a) = Len(otadata) /\ Len(a) \in 1 .. 2
      /\ otadata \in Seq(Entries)
      /\ \A i \in 1 .. Len(a) :
           /\ a[i].slot = otadata[i].slot /\ a[i].slot \in Slots
           /\ a[i].state = IF otadata[i].state = "pending" THEN "aborted" ELSE otadata[i].state
  <2>1. otadata \in Seq(Entries) /\ Len(otadata) \in 1 .. 2
    BY DEF IInv, EntriesInv
  <2>2. \A i \in 1 .. Len(otadata) : otadata[i].slot \in Slots
    <3>1. \A i \in 1 .. Len(otadata) : otadata[i] \in Entries
      BY <2>1
    <3>2. QED
      BY <3>1 DEF Entries
  <2>3. QED
    BY <2>1, <2>2, AbortedIs
<1>2. /\ c \in 0 .. Len(a)
      /\ c = 0 <=> \A i \in 1 .. Len(a) : a[i].state = "aborted"
      /\ c # 0 => /\ a[c].state # "aborted"
                  /\ \A j \in 1 .. Len(a) : j < c => a[j].state = "aborted"
  BY <1>1, ChoiceIs
<1> HIDE DEF a
<1>3. /\ otadata' \in Seq(Entries) /\ Len(otadata') = Len(a) /\ DOMAIN otadata' = 1 .. Len(a)
      /\ \A i \in 1 .. Len(a) :
           /\ otadata'[i].slot = a[i].slot
           /\ otadata'[i].state = IF i = c /\ a[i].state = "new" THEN "pending" ELSE a[i].state
  <2>1. otadata' = Started(a)
    BY DEF Boot, a
  <2>2. Started(a) \in Seq(Entries) /\ Len(Started(a)) = Len(a)
    BY <1>1, StartedIs
  <2>3. \A i \in 1 .. Len(a) :
          /\ Started(a)[i].slot = a[i].slot
          /\ Started(a)[i].state = IF i = c /\ a[i].state = "new" THEN "pending" ELSE a[i].state
    BY <1>1, StartedIs
  <2>4. QED
    BY <2>1, <2>2, <2>3
<1> HIDE DEF c
<1>4. run' \in Slots /\ flash'[run'] # Torn
  BY BootSlotIs DEF Boot
<1>5. c # 0 => run' = IF flash[a[c].slot] # Torn THEN a[c].slot ELSE Other(a[c].slot)
  BY DEF Boot, BootSlot, a, c
<1>6. ram' = ColdRam
  BY DEF Boot
<1>t. TypeOK'
  <2>1. ram' \in Rams
    BY <1>6 DEF ColdRam, Rams
  <2>2. Len(otadata') \in 1 .. 2 /\ \A i \in DOMAIN otadata' : otadata'[i] \in Entries
    BY <1>1, <1>3
  <2>3. QED
    BY <1>4, <2>1, <2>2 DEF IInv, TypeOK, Entries, Rams
<1>n. EntriesInv'
  BY <1>1, <1>3 DEF EntriesInv
<1>r. RunInv'
  BY <1>4 DEF RunInv, Current
<1>v. \A i \in 1 .. Len(a) : otadata'[i].state = "valid" <=> otadata[i].state = "valid"
  BY <1>1, <1>3
<1>f. \A i \in 1 .. 2 : IsFirst(i)' => IsFirst(i) /\ c # 0 /\ c <= i
  BY <1>1, <1>2, <1>3, <1>v DEF IsFirst
<1>c. ConfirmedInv'
  <2> SUFFICES ASSUME NEW i \in 1 .. 2, IsFirst(i)'
               PROVE  /\ flash'[otadata'[i].slot] \in proven'
                      /\ ~Pending' => run' = otadata'[i].slot
    BY DEF ConfirmedInv
  <2>1. IsFirst(i) /\ c # 0 /\ c <= i /\ i \in 1 .. Len(a)
    BY <1>f, <1>3 DEF IsFirst
  <2>2. otadata'[i].slot = otadata[i].slot /\ otadata[i].slot \in Slots
    BY <1>1, <1>3, <2>1
  <2>3. flash[otadata[i].slot] \in proven /\ flash[otadata[i].slot] # Torn
    BY <2>1, TypesAre DEF IInv, ConfirmedInv
  <2>4. CASE c = i
    BY <1>1, <1>5, <2>1, <2>2, <2>3, <2>4
  <2>5. CASE c < i
    <3>1. c \in 1 .. Len(a) /\ otadata[c].state # "valid"
      BY <1>2, <2>1, <2>5, <1>1 DEF IsFirst
    <3>2. otadata'[c] = [slot |-> a[c].slot, state |-> "pending"]
      <4>1. a[c].state = "new"
        <5>1. otadata[c] \in Entries
          BY <1>1, <3>1
        <5>2. QED
          BY <1>1, <1>2, <2>1, <3>1, <5>1 DEF Entries
      <4>2. /\ otadata'[c] \in Entries /\ otadata'[c].slot = a[c].slot
            /\ otadata'[c].state = "pending"
        BY <1>3, <3>1, <4>1
      <4>3. QED
        BY <4>2 DEF Entries
    <3>3. CASE flash[a[c].slot] # Torn
      BY <1>3, <1>5, <2>1, <2>2, <2>3, <3>1, <3>2, <3>3 DEF Pending
    <3>4. CASE flash[a[c].slot] = Torn
      BY <1>1, <1>5, <2>1, <2>2, <2>3, <3>1, <3>4, SlotsAre
    <3>5. QED
      BY <3>3, <3>4
  <2>6. QED
    BY <1>2, <2>1, <2>4, <2>5
<1>p. TestedInv'
  BY <1>1, <1>2, <1>3 DEF TestedInv
<1>k. TaskInv' /\ RejectedInv'
  BY <1>6 DEF TaskInv, RejectedInv, Installing, ColdRam, Confirmed
<1>m. ~unmarked => MarkedInv' /\ StartsWell
  <2> SUFFICES ASSUME ~unmarked PROVE MarkedInv' /\ StartsWell
    OBVIOUS
  <2>0. PICK i \in 1 .. Len(a) : otadata[i].state = "valid"
    BY <1>1 DEF IInv, MarkedInv, HasConfirmed
  <2>1. HasConfirmed'
    BY <1>3, <1>v, <2>0 DEF HasConfirmed
  <2>2. PICK f \in 1 .. 2 : IsFirst(f)'
    <3>1. CASE otadata'[1].state = "valid"
      BY <1>1, <1>3, <3>1 DEF IsFirst
    <3>2. CASE otadata'[1].state # "valid"
      <4>1. i = 2 /\ otadata'[2].state = "valid"
        BY <1>1, <1>v, <2>0, <3>2
      <4>2. QED
        BY <1>1, <1>3, <2>0, <3>2, <4>1 DEF IsFirst
    <3>3. QED
      BY <3>1, <3>2
  <2>3. IsFirst(f) /\ c # 0 /\ c <= f /\ f \in 1 .. Len(a)
    BY <1>f, <1>3, <2>2 DEF IsFirst
  <2>4. \A j \in DOMAIN otadata : j < f => Before(j)
    BY <2>3 DEF IInv, MarkedInv
  <2>5. CASE c = f
    <3>1. run' = otadata[f].slot /\ flash[otadata[f].slot] \in proven
      BY <1>1, <1>5, <2>3, <2>5, TypesAre DEF IInv, ConfirmedInv
    <3>2. \A j \in 1 .. Len(a) : j < f => otadata'[j].state = "aborted"
      BY <1>2, <1>3, <2>3, <2>5
    <3>3. \A g \in 1 .. 2 : IsFirst(g)' => g = f
      BY <1>1, <1>3, <2>2, <2>3 DEF IsFirst
    <3>4. MarkedInv'
      BY <1>3, <2>1, <3>2, <3>3 DEF MarkedInv, Before
    <3>5. QED
      BY <3>1, <3>4 DEF StartsWell
  <2>6. CASE c < f
    <3>1. c = 1 /\ f = 2 /\ 1 \in DOMAIN otadata
      BY <1>1, <1>2, <2>3, <2>6
    <3>2. ram.pc = "mark" /\ otadata[1] = [slot |-> Other(run), state |-> "new"]
      BY <1>1, <1>2, <2>3, <2>4, <3>1 DEF Before
    <3>3. flash[Other(run)] = ram.cand /\ ram.cand # Torn /\ ram.cand > nvs.rejected
      BY <3>2 DEF IInv, TaskInv, RejectedInv, Installing, NoRelease, Torn
    <3>4. run' = Other(run)
      BY <1>1, <1>5, <3>1, <3>2, <3>3
    <3>5. otadata'[1] = [slot |-> run', state |-> "pending"]
      <4>1. otadata'[1] \in Entries /\ otadata'[1].slot = run' /\ otadata'[1].state = "pending"
        BY <1>1, <1>3, <3>1, <3>2, <3>4
      <4>2. QED
        BY <4>1 DEF Entries
    <3>6. MarkedInv'
      <4>1. \A g \in 1 .. 2, j \in DOMAIN otadata' : IsFirst(g)' /\ j < g => j = 1
        BY <1>3
      <4>2. Before(1)'
        BY <3>5 DEF Before
      <4>3. QED
        BY <1>3, <2>1, <4>1, <4>2 DEF MarkedInv
    <3>7. QED
      BY <3>3, <3>4, <3>6 DEF StartsWell
  <2>7. QED
    BY <1>2, <2>3, <2>5, <2>6
<1>q. QED
  BY <1>t, <1>n, <1>r, <1>c, <1>p, <1>k, <1>m DEF IInv, StartsWell

-----------------------------------------------------------------------------
(* Steps that leave the slots and the boot loader's entries alone.         *)
LEMMA StaysKept ==
  ASSUME IInv, UNCHANGED <<flash, otadata, run, proven>>,
         ~unmarked' => ~unmarked, ram.pc = "mark" => unmarked' \/ ram'.pc = "mark"
  PROVE  /\ EntriesInv' /\ RunInv' /\ ConfirmedInv' /\ TestedInv' /\ StartsWell
         /\ ~unmarked' => MarkedInv'
         /\ Pending' <=> Pending
<1>1. EntriesInv' /\ RunInv' /\ TestedInv' /\ StartsWell /\ (Pending' <=> Pending)
  BY DEF IInv, EntriesInv, RunInv, TestedInv, StartsWell, Pending, Current
<1>2. ConfirmedInv'
  BY DEF IInv, ConfirmedInv, IsFirst, Pending
<1>3. ~unmarked' => MarkedInv'
  BY DEF IInv, MarkedInv, HasConfirmed, IsFirst, Before
<1>4. QED
  BY <1>1, <1>2, <1>3

(* The publisher.                                                          *)
LEMMA PublishKeeps ==
  ASSUME IInv, Publish
  PROVE  IInv' /\ StartsWell
<1>1. /\ UNCHANGED <<flash, otadata, nvs, run, ram, proven, unmarked, faults>>
      /\ offered' \in Releases
  BY DEF Publish
<1>2. TypeOK'
  BY <1>1 DEF IInv, TypeOK
<1>3. TaskInv' /\ RejectedInv'
  BY <1>1 DEF IInv, TaskInv, RejectedInv, Installing, Confirmed, Pending
<1>4. QED
  BY <1>1, <1>2, <1>3, StaysKept DEF IInv

(* Steps of the program on ram and NVS alone.                              *)
LEMMA RamStepKeeps ==
  ASSUME IInv, NEW r \in Rams, RamStep(r), UNCHANGED <<otadata, proven>>,
         nvs' \in [attempted : Releases \cup {0}, rejected : Releases \cup {0}],
         ram.pc # "mark", TaskInv', RejectedInv'
  PROVE  IInv' /\ StartsWell
<1>1. ram' = r /\ UNCHANGED <<flash, otadata, run, offered, proven, unmarked, faults>>
  BY DEF RamStep
<1>2. TypeOK'
  BY <1>1 DEF IInv, TypeOK, Rams
<1>3. QED
  BY <1>1, <1>2, StaysKept DEF IInv

LEMMA TickIs ==
  ASSUME TypeOK
  PROVE  /\ Tick(ram) \in Rams
         /\ Tick(ram) = [ram EXCEPT !.ticks = Tick(ram).ticks]
BY DEF TypeOK, Rams, Tick

(* voice_ota_confirm_boot.                                                 *)
LEMMA ConfirmBootKeeps ==
  ASSUME ReleasesAssumption, FaultsAssumption, IInv, ConfirmBoot
  PROVE  IInv' /\ StartsWell
<1> USE TickIs DEF IInv
<1>0. ram \in Rams
  BY DEF TypeOK, Rams
<1>1. CASE ReadFails
  <2> DEFINE r == IF Pending THEN Tick(ram)
                  ELSE [Tick(ram) EXCEPT !.disabled = TRUE, !.boot = "done"]
  <2>1. r \in Rams
    BY DEF Rams
  <2>2. /\ ram.boot = "checking" /\ ram.pc = "check" /\ RamStep(r)
        /\ UNCHANGED <<otadata, nvs, proven>>
    BY <1>1 DEF ReadFails, TaskInv, Confirmed
  <2>3. r.pc = "check" /\ (Pending => r.boot = "checking") /\ (~Pending => r.disabled)
    BY <2>2 DEF Tick, Rams, TypeOK
  <2> HIDE DEF r
  <2>4. ram' = r /\ (Pending' <=> Pending)
    BY <2>2 DEF RamStep, Pending
  <2>5. TaskInv' /\ RejectedInv'
    BY <2>3, <2>4 DEF TaskInv, RejectedInv, Installing
  <2>6. QED
    BY <2>1, <2>2, <2>5, RamStepKeeps DEF TypeOK
<1>2. CASE LoopOnce
  <2> DEFINE r == [Tick(ram) EXCEPT !.rejected = nvs.rejected]
  <2>1. r \in Rams
    BY DEF Rams, TypeOK
  <2>2. /\ ram.boot = "checking" /\ ram.pc = "check" /\ RamStep(r)
        /\ UNCHANGED <<otadata, nvs, proven>>
    BY <1>2 DEF LoopOnce, TaskInv, Confirmed
  <2>3. r.pc = "check" /\ r.boot = "checking"
    BY <2>2 DEF Tick, Rams, TypeOK
  <2> HIDE DEF r
  <2>4. ram' = r
    BY <2>2 DEF RamStep
  <2>5. TaskInv' /\ RejectedInv'
    BY <2>3, <2>4 DEF TaskInv, RejectedInv, Installing
  <2>6. QED
    BY <2>1, <2>2, <2>5, RamStepKeeps DEF TypeOK
<1>3. CASE SelfTestPasses
  <2> DEFINE r == [Tick(ram) EXCEPT !.rejected = nvs.rejected, !.boot = "clearing"]
  <2>1. r \in Rams
    BY DEF Rams, TypeOK
  <2>2. /\ ram.pc = "check" /\ Pending /\ Current \in Good /\ ram' = r
        /\ UNCHANGED <<flash, run, offered, unmarked, faults, nvs>>
        /\ proven' = proven \cup {Current}
    BY <1>3 DEF SelfTestPasses, TaskInv, Confirmed, RamStep
  <2>3. r.pc = "check" /\ r.boot = "clearing" /\ r.rejected = nvs.rejected
    BY <2>2 DEF Tick, Rams, TypeOK
  <2> HIDE DEF r
  <2>4. /\ DOMAIN otadata = 1 .. Len(otadata) /\ Len(otadata) \in 1 .. 2
        /\ \A i \in DOMAIN otadata : otadata[i] \in Entries
    BY TypesAre DEF EntriesInv
  <2>5. /\ DOMAIN otadata' = DOMAIN otadata
        /\ \A i \in DOMAIN otadata :
             /\ otadata'[i] \in Entries /\ otadata'[i].slot = otadata[i].slot
             /\ otadata'[i].state = IF otadata[i] = [slot |-> run, state |-> "pending"]
                                      THEN "valid" ELSE otadata[i].state
    <3>1. otadata' = [i \in DOMAIN otadata |->
                        IF otadata[i].slot = run /\ otadata[i].state = "pending"
                          THEN [otadata[i] EXCEPT !.state = "valid"] ELSE otadata[i]]
      BY <1>3 DEF SelfTestPasses
    <3>2. QED
      BY <2>4, <3>1 DEF Entries
  <2>6. EntriesInv' /\ DOMAIN otadata' = 1 .. Len(otadata') /\ Len(otadata') = Len(otadata)
    <3>1. otadata' = [i \in 1 .. Len(otadata) |-> otadata'[i]]
      BY <1>3, <2>4 DEF SelfTestPasses
    <3>2. QED
      BY <2>4, <2>5, <3>1 DEF EntriesInv
  <2>7. TypeOK'
    <3>1. \A i \in DOMAIN otadata' : otadata'[i] \in Entries
      BY <2>5
    <3>2. QED
      BY <2>1, <2>2, <2>4, <2>6, <3>1 DEF TypeOK, Rams, Entries
  <2>8. PICK p \in DOMAIN otadata : otadata[p] = [slot |-> run, state |-> "pending"]
    BY <2>2 DEF Pending
  <2>9. /\ \A j \in DOMAIN otadata : j < p => otadata'[j].state = "aborted"
        /\ otadata'[p].state = "valid" /\ otadata'[p].slot = run
    BY <2>5, <2>8 DEF TestedInv
  <2>10. \A i \in 1 .. 2 : IsFirst(i)' => i = p
    BY <2>4, <2>5, <2>8, <2>9 DEF IsFirst
  <2>11. ConfirmedInv'
    BY <2>2, <2>9, <2>10 DEF ConfirmedInv, Current
  <2>12. MarkedInv'
    BY <2>5, <2>8, <2>9, <2>10 DEF MarkedInv, HasConfirmed, Before
  <2>13. ~Pending'
    <3>1. \A i \in DOMAIN otadata : otadata'[i].state = "pending" => otadata'[i].slot # run
      BY <2>4, <2>5 DEF Entries
    <3>2. QED
      BY <2>2, <2>5, <3>1 DEF Pending
  <2>14. TestedInv' /\ TaskInv' /\ RejectedInv'
    BY <2>2, <2>3, <2>5, <2>13 DEF TestedInv, TaskInv, RejectedInv, Installing, Pending
  <2>15. RunInv' /\ StartsWell
    BY <2>2 DEF RunInv, StartsWell, Current
  <2>16. QED
    BY <2>6, <2>7, <2>11, <2>12, <2>14, <2>15
<1>4. CASE SelfTestTimesOut
  BY <1>4, BootKeeps DEF SelfTestTimesOut, TypeOK
<1>5. ASSUME NEW written \in BOOLEAN, Reject(written)
      PROVE  IInv' /\ StartsWell
  <2> DEFINE r == [Tick(ram) EXCEPT !.rejected = nvs.attempted,
                                    !.boot = IF written THEN "clearing" ELSE "done",
                                    !.disabled = @ \/ ~written]
  <2>1. r \in Rams
    <3>1. Tick(ram) \in Rams /\ nvs.attempted \in Releases \cup {0}
      BY DEF TypeOK
    <3>2. QED
      BY <3>1 DEF Rams
  <2>2. /\ ram.boot = "checking" /\ ram.pc = "check" /\ ~Pending /\ RamStep(r)
        /\ UNCHANGED <<otadata, proven>>
        /\ nvs' = IF written THEN [nvs EXCEPT !.rejected = nvs.attempted] ELSE nvs
    BY <1>5 DEF Reject, TaskInv, Confirmed
  <2>3. /\ nvs' \in [attempted : Releases \cup {0}, rejected : Releases \cup {0}]
        /\ written => nvs'.rejected = nvs.attempted
    BY <2>2 DEF TypeOK
  <2>4. r.pc = "check" /\ (~written => r.disabled) /\ r.rejected = nvs.attempted
    BY <2>2 DEF Tick, Rams, TypeOK
  <2> HIDE DEF r
  <2>5. ram' = r /\ ~Pending'
    BY <2>2 DEF RamStep, Pending
  <2>6. TaskInv' /\ RejectedInv'
    BY <2>3, <2>4, <2>5 DEF TaskInv, RejectedInv, Installing
  <2>7. QED
    BY <2>1, <2>2, <2>3, <2>6, RamStepKeeps
<1>6. CASE NothingAttempted
  <2> DEFINE r == [Tick(ram) EXCEPT !.rejected = nvs.rejected, !.boot = "clearing"]
  <2>1. r \in Rams
    BY DEF Rams, TypeOK
  <2>2. /\ ram.boot = "checking" /\ ram.pc = "check" /\ ~Pending /\ RamStep(r)
        /\ UNCHANGED <<otadata, nvs, proven>>
    BY <1>6 DEF NothingAttempted, TaskInv, Confirmed
  <2>3. r.pc = "check" /\ r.rejected = nvs.rejected
    BY <2>2 DEF Tick, Rams, TypeOK
  <2> HIDE DEF r
  <2>4. ram' = r /\ ~Pending'
    BY <2>2 DEF RamStep, Pending
  <2>5. TaskInv' /\ RejectedInv'
    BY <2>2, <2>3, <2>4 DEF TaskInv, RejectedInv, Installing
  <2>6. QED
    BY <2>1, <2>2, <2>5, RamStepKeeps DEF TypeOK
<1>7. ASSUME NEW written \in BOOLEAN, ClearAttempted(written)
      PROVE  IInv' /\ StartsWell
  <2> DEFINE r == [ram EXCEPT !.boot = "done",
                              !.disabled = @ \/ (~written /\ nvs.attempted # 0)]
  <2>1. r \in Rams
    BY <1>0 DEF Rams
  <2>2. /\ ram.boot = "clearing" /\ ram.pc = "check" /\ RamStep(r)
        /\ UNCHANGED <<otadata, proven>>
        /\ nvs' = IF written THEN [nvs EXCEPT !.attempted = 0] ELSE nvs
    BY <1>7 DEF ClearAttempted, TaskInv, Confirmed
  <2>3. /\ nvs' \in [attempted : Releases \cup {0}, rejected : Releases \cup {0}]
        /\ nvs'.rejected = nvs.rejected
    BY <2>2 DEF TypeOK
  <2>4. r.pc = "check" /\ r.rejected = ram.rejected /\ (ram.disabled => r.disabled)
    BY <1>0, <2>2 DEF Rams
  <2> HIDE DEF r
  <2>5. ram' = r /\ ~Pending'
    BY <2>2 DEF RamStep, Pending, TaskInv
  <2>6. TaskInv' /\ RejectedInv'
    BY <2>2, <2>3, <2>4, <2>5 DEF TaskInv, RejectedInv, Installing
  <2>7. QED
    BY <2>1, <2>2, <2>3, <2>6, RamStepKeeps
<1>8. QED
  BY <1>1, <1>2, <1>3, <1>4, <1>5, <1>6, <1>7 DEF ConfirmBoot

(* The other owners of the gate.                                           *)
LEMMA OthersKeep ==
  ASSUME IInv, OthersClaim \/ OthersRelease
  PROVE  IInv' /\ StartsWell
<1>1. PICK owner \in {"idle", "voice", "storage"} : RamStep([ram EXCEPT !.activity = owner])
  BY DEF OthersClaim, OthersRelease
<1> DEFINE r == [ram EXCEPT !.activity = owner]
<1>2. r \in Rams /\ RamStep(r) /\ ram.activity # "ota" /\ UNCHANGED <<otadata, nvs, proven>>
  BY <1>1 DEF Rams, IInv, TypeOK, OthersClaim, OthersRelease
<1>3. /\ r.pc = ram.pc /\ r.boot = ram.boot /\ r.disabled = ram.disabled
      /\ r.rejected = ram.rejected /\ r.cand = ram.cand
  BY DEF IInv, TypeOK
<1> HIDE DEF r
<1>4. ram' = r /\ UNCHANGED <<flash, run>> /\ (Pending' <=> Pending)
  BY <1>2 DEF RamStep, Pending
<1>5. TaskInv' /\ RejectedInv' /\ ram.pc # "mark"
  BY <1>2, <1>3, <1>4 DEF IInv, TaskInv, RejectedInv, Installing, Confirmed
<1>6. QED
  BY <1>2, <1>5, RamStepKeeps DEF IInv, TypeOK

(* ota_task up to the installation: the offer is newer than what was       *)
(* rejected when the gate is claimed for it.                               *)
LEMMA OfferKeeps ==
  ASSUME ReleasesAssumption, IInv, FetchManifest \/ DropOffer \/ Claim
  PROVE  IInv' /\ StartsWell
<1> USE DEF IInv
<1>0. ram \in Rams
  BY DEF TypeOK, Rams
<1>1. CASE FetchManifest
  <2>1. PICK reply \in Reply :
          /\ Decoded(reply) # NoRelease
          /\ RamStep([ram EXCEPT !.pc = "offer", !.cand = Decoded(reply)])
    BY <1>1 DEF FetchManifest
  <2> DEFINE r == [ram EXCEPT !.pc = "offer", !.cand = Decoded(reply)]
  <2>2. r \in Rams
    BY <1>0 DEF Rams, Decoded, TypeOK
  <2>3. /\ ram.pc = "check" /\ ~ram.disabled /\ Confirmed
        /\ UNCHANGED <<otadata, nvs, proven>>
    BY <1>1 DEF FetchManifest
  <2>4. /\ r.pc = "offer" /\ r.boot = ram.boot /\ r.disabled = ram.disabled
        /\ r.rejected = ram.rejected
    BY <1>0 DEF Rams
  <2> HIDE DEF r
  <2>5. ram' = r /\ (Pending' <=> Pending)
    BY <2>1, <2>3 DEF RamStep, Pending, r
  <2>6. TaskInv' /\ RejectedInv'
    BY <2>3, <2>4, <2>5 DEF TaskInv, RejectedInv, Installing, Confirmed
  <2>7. QED
    BY <2>1, <2>2, <2>3, <2>6, RamStepKeeps DEF TypeOK, r
<1>2. CASE DropOffer
  <2> DEFINE r == [ram EXCEPT !.pc = "check"]
  <2>1. r \in Rams
    BY <1>0 DEF Rams
  <2>2. ram.pc = "offer" /\ RamStep(r) /\ UNCHANGED <<otadata, nvs, proven>>
    BY <1>2 DEF DropOffer, Goes
  <2>3. /\ r.pc = "check" /\ r.boot = ram.boot /\ r.disabled = ram.disabled
        /\ r.rejected = ram.rejected
    BY <1>0 DEF Rams
  <2> HIDE DEF r
  <2>4. ram' = r /\ (Pending' <=> Pending)
    BY <2>2 DEF RamStep, Pending
  <2>5. TaskInv' /\ RejectedInv'
    BY <2>2, <2>3, <2>4 DEF TaskInv, RejectedInv, Installing
  <2>6. QED
    BY <2>1, <2>2, <2>5, RamStepKeeps DEF TypeOK
<1>3. CASE Claim
  <2> DEFINE r == [ram EXCEPT !.pc = "begin", !.activity = "ota"]
  <2>1. r \in Rams
    BY <1>0 DEF Rams
  <2>2. /\ ram.pc = "offer" /\ ~ram.disabled /\ ~Ignored /\ RamStep(r)
        /\ UNCHANGED <<otadata, nvs, proven>>
    BY <1>3 DEF Claim
  <2>3. /\ r.pc = "begin" /\ r.activity = "ota" /\ r.boot = ram.boot /\ r.disabled = ram.disabled
        /\ r.rejected = ram.rejected /\ r.cand = ram.cand
    BY <1>0 DEF Rams
  <2> HIDE DEF r
  <2>4. ram' = r /\ (Pending' <=> Pending)
    BY <2>2 DEF RamStep, Pending
  <2>5. Confirmed /\ ram.rejected = nvs.rejected
    BY <2>2 DEF TaskInv, RejectedInv, Confirmed
  <2>6. ram.cand > nvs.rejected /\ ram.cand # NoRelease
    BY <2>2, <2>5, TypesAre DEF Ignored, NoRelease
  <2>7. TaskInv' /\ RejectedInv'
    BY <2>2, <2>3, <2>4, <2>5, <2>6 DEF TaskInv, RejectedInv, Installing, Confirmed
  <2>8. QED
    BY <2>1, <2>2, <2>7, RamStepKeeps DEF TypeOK
<1>4. QED
  BY <1>1, <1>2, <1>3

(* An image is only written while none is under test: the running image is *)
(* the confirmed one, and the slot written to is the other one.            *)
LEMMA InstallingIs ==
  ASSUME IInv, Installing
  PROVE  /\ Confirmed /\ ~Pending /\ ~ram.disabled /\ ram.activity = "ota"
         /\ ram.cand # NoRelease /\ ram.cand > nvs.rejected
         /\ \A i \in 1 .. 2 : IsFirst(i) => otadata[i].slot = run
BY DEF IInv, TaskInv, RejectedInv, ConfirmedInv, Installing, Confirmed

(* A step that writes to the other slot alone.                             *)
LEMMA WriteKeeps ==
  ASSUME ReleasesAssumption, IInv, Begin \/ WriteEnds
  PROVE  IInv' /\ StartsWell
<1> USE DEF IInv
<1>1. PICK x \in {Torn, ram.cand} : flash' = [flash EXCEPT ![Other(run)] = x]
  BY DEF Begin, WriteEnds
<1>2. PICK pc \in {"write", "switch"} : ram' = [ram EXCEPT !.pc = pc]
  BY DEF Begin, WriteEnds
<1>3. /\ UNCHANGED <<otadata, nvs, run, offered, proven, unmarked, faults>>
      /\ Installing /\ ram.pc # "mark"
  BY DEF Begin, WriteEnds, Installing
<1>4. /\ ram' \in Rams /\ ram'.pc = pc /\ ram'.boot = ram.boot /\ ram'.disabled = ram.disabled
      /\ ram'.activity = ram.activity /\ ram'.rejected = ram.rejected /\ ram'.cand = ram.cand
  BY <1>2 DEF TypeOK, Rams
<1>5. /\ run \in Slots /\ Other(run) \in Slots /\ Other(run) # run
      /\ flash \in [Slots -> Releases \cup {Torn}] /\ x \in Releases \cup {Torn}
  BY SlotsAre DEF TypeOK, Torn, NoRelease
<1>6. /\ flash' \in [Slots -> Releases \cup {Torn}]
      /\ flash'[run] = flash[run] /\ flash'[Other(run)] = x
  BY <1>1, <1>5
<1>7. TypeOK'
  BY <1>3, <1>4, <1>6 DEF TypeOK, Rams
<1>8. EntriesInv' /\ RunInv' /\ TestedInv' /\ StartsWell /\ ~Pending'
  BY <1>3, <1>6, InstallingIs DEF EntriesInv, RunInv, TestedInv, StartsWell, Current, Pending
<1>9. ConfirmedInv'
  <2> SUFFICES ASSUME NEW i \in 1 .. 2, IsFirst(i)'
               PROVE  flash'[otadata'[i].slot] \in proven' /\ run' = otadata'[i].slot
    BY DEF ConfirmedInv
  <2>1. IsFirst(i)
    BY <1>3 DEF IsFirst
  <2>2. flash[run] \in proven /\ otadata[i].slot = run
    BY <1>3, <2>1, InstallingIs DEF ConfirmedInv
  <2>3. QED
    BY <1>3, <1>6, <2>2
<1>10. ~unmarked' => MarkedInv'
  BY <1>3 DEF MarkedInv, HasConfirmed, IsFirst, Before
<1>11. ram'.pc = "switch" => x = ram.cand
  <2>1. CASE Begin
    <3>1. ram'.pc = "write"
      BY <2>1 DEF Begin, TypeOK
    <3>2. QED
      BY <3>1
  <2>2. CASE WriteEnds
    <3>1. flash' = [flash EXCEPT ![Other(run)] = ram.cand]
      BY <2>2 DEF WriteEnds
    <3>2. QED
      BY <1>5, <1>6, <3>1
  <2>3. QED
    BY <2>1, <2>2
<1>12. TaskInv' /\ RejectedInv'
  BY <1>3, <1>4, <1>6, <1>8, <1>11, InstallingIs DEF TaskInv, RejectedInv, Installing, Confirmed
<1>13. QED
  BY <1>7, <1>8, <1>9, <1>10, <1>12

(* A failed installation: nothing but the gate changes.                    *)
LEMMA FailureKeeps ==
  ASSUME IInv, OpenFails \/ InstallFails
  PROVE  IInv' /\ StartsWell
<1> USE DEF IInv
<1>1. /\ ram' = [ram EXCEPT !.pc = "check", !.activity = "idle"]
      /\ UNCHANGED <<flash, otadata, nvs, run, offered, proven, unmarked, faults>>
      /\ Installing /\ ram.pc # "mark"
  BY DEF OpenFails, InstallFails, Defers, Installing
<1>2. /\ ram' \in Rams /\ ram'.pc = "check" /\ ram'.boot = ram.boot
      /\ ram'.disabled = ram.disabled /\ ram'.rejected = ram.rejected
  BY <1>1 DEF TypeOK, Rams
<1>3. TypeOK'
  BY <1>1, <1>2 DEF TypeOK, Rams
<1>4. TaskInv' /\ RejectedInv'
  BY <1>1, <1>2 DEF TaskInv, RejectedInv, Installing, Pending
<1>5. QED
  BY <1>1, <1>3, <1>4, StaysKept

(* Where an entry is confirmed there is a newest such one.                 *)
LEMMA FirstIs ==
  ASSUME EntriesInv, NEW i \in DOMAIN otadata, otadata[i].state = "valid"
  PROVE  \E f \in 1 .. 2 : IsFirst(f)
<1>1. DOMAIN otadata = 1 .. Len(otadata) /\ Len(otadata) \in 1 .. 2
  BY DEF EntriesInv
<1>2. CASE otadata[1].state = "valid"
  BY <1>1, <1>2 DEF IsFirst
<1>3. CASE otadata[1].state # "valid"
  <2>1. i = 2
    BY <1>1, <1>3
  <2>2. QED
    BY <1>1, <1>3, <2>1 DEF IsFirst
<1>4. QED
  BY <1>2, <1>3

(* The boot loader's entries switch: the confirmed one stays behind the    *)
(* new one.                                                                *)
LEMMA SetBootKeeps ==
  ASSUME IInv, Installing, NEW slot \in Slots, SetBoot(slot), UNCHANGED <<flash, run, proven>>
  PROVE  /\ EntriesInv' /\ RunInv' /\ ConfirmedInv' /\ TestedInv' /\ ~Pending' /\ StartsWell
         /\ \A i \in DOMAIN otadata' : otadata'[i] \in Entries
         /\ \A i \in 1 .. 2 : IsFirst(i)' => i = 2
         /\ otadata'[1] = [slot |-> slot, state |-> "new"]
         /\ ~unmarked /\ ram.pc = "switch" => HasConfirmed'
<1> USE DEF IInv
<1> DEFINE c == Choice(otadata)
<1>1. /\ otadata \in Seq(Entries) /\ Len(otadata) \in 1 .. 2 /\ DOMAIN otadata = 1 .. Len(otadata)
      /\ c \in 0 .. Len(otadata)
      /\ c = 0 <=> \A i \in 1 .. Len(otadata) : otadata[i].state = "aborted"
      /\ c # 0 => /\ otadata[c].state # "aborted"
                  /\ \A j \in 1 .. Len(otadata) : j < c => otadata[j].state = "aborted"
  BY ChoiceIs DEF EntriesInv
<1>2. /\ EntriesInv' /\ otadata'[1] = [slot |-> slot, state |-> "new"]
      /\ Len(otadata') = IF c = 0 THEN 1 ELSE 2
      /\ c # 0 => otadata'[2] = otadata[c]
  BY SetBootIs
<1> HIDE DEF c
<1>3. /\ DOMAIN otadata' = 1 .. Len(otadata')
      /\ \A i \in DOMAIN otadata' : otadata'[i] \in Entries
  <2>1. otadata' \in Seq(Entries)
    BY <1>2 DEF EntriesInv
  <2>2. QED
    BY <2>1
<1>4. \A i \in DOMAIN otadata' : i = 1 \/ (i = 2 /\ c # 0)
  BY <1>1, <1>2, <1>3
<1>5. otadata'[1].state = "new"
  BY <1>2
<1>6. ~Pending' /\ TestedInv'
  <2>1. \A i \in DOMAIN otadata' : otadata'[i] # [slot |-> run, state |-> "pending"]
    BY <1>1, <1>2, <1>4, <1>5, InstallingIs DEF Pending
  <2>2. QED
    BY <2>1 DEF Pending, TestedInv
<1>7. \A i \in 1 .. 2 : IsFirst(i)' => i = 2 /\ c # 0 /\ IsFirst(c)
  BY <1>1, <1>2, <1>4, <1>5 DEF IsFirst
<1>8. ConfirmedInv'
  <2> SUFFICES ASSUME NEW i \in 1 .. 2, IsFirst(i)'
               PROVE  flash'[otadata'[i].slot] \in proven' /\ run' = otadata'[i].slot
    BY DEF ConfirmedInv
  <2>1. otadata'[i] = otadata[c] /\ IsFirst(c) /\ c \in 1 .. 2
    BY <1>1, <1>2, <1>7
  <2>2. QED
    BY <2>1, InstallingIs DEF ConfirmedInv
<1>9. ASSUME ~unmarked, ram.pc = "switch" PROVE HasConfirmed'
  <2>1. PICK i \in DOMAIN otadata : otadata[i].state = "valid"
    BY <1>9 DEF MarkedInv, HasConfirmed
  <2>2. PICK f \in 1 .. 2 : IsFirst(f)
    BY <2>1, FirstIs
  <2>3. \A j \in DOMAIN otadata : j < f => otadata[j].state = "aborted"
    BY <1>9, <2>2, InstallingIs DEF MarkedInv, Before, Pending
  <2>4. c = f /\ otadata[f].state = "valid"
    BY <1>1, <2>2, <2>3 DEF IsFirst
  <2>5. QED
    BY <1>2, <1>3, <2>2, <2>4 DEF HasConfirmed
<1>10. RunInv' /\ StartsWell
  BY DEF RunInv, StartsWell, Current
<1>11. QED
  BY <1>2, <1>3, <1>6, <1>7, <1>8, <1>9, <1>10

LEMMA SwitchBootKeeps ==
  ASSUME IInv, SwitchBoot
  PROVE  IInv' /\ StartsWell
<1>1. /\ ram' = [ram EXCEPT !.pc = "mark"] /\ ram.pc = "switch" /\ Installing
      /\ SetBoot(Other(run)) /\ Other(run) \in Slots
      /\ UNCHANGED <<flash, nvs, run, offered, proven, unmarked, faults>>
  BY SlotsAre DEF SwitchBoot, Goes, RamStep, Installing, IInv, TypeOK
<1>2. /\ ram' \in Rams /\ ram'.pc = "mark" /\ ram'.boot = ram.boot /\ ram'.disabled = ram.disabled
      /\ ram'.activity = ram.activity /\ ram'.rejected = ram.rejected /\ ram'.cand = ram.cand
  BY <1>1 DEF IInv, TypeOK, Rams
<1>3. /\ EntriesInv' /\ RunInv' /\ ConfirmedInv' /\ TestedInv' /\ ~Pending' /\ StartsWell
      /\ \A i \in DOMAIN otadata' : otadata'[i] \in Entries
      /\ \A i \in 1 .. 2 : IsFirst(i)' => i = 2
      /\ otadata'[1] = [slot |-> Other(run), state |-> "new"]
      /\ ~unmarked => HasConfirmed'
  BY <1>1, SetBootKeeps
<1>4. TypeOK'
  BY <1>1, <1>2, <1>3 DEF IInv, TypeOK, Rams, Entries, EntriesInv
<1>5. ~unmarked' => MarkedInv'
  <2>1. Before(1)'
    BY <1>1, <1>2, <1>3 DEF Before
  <2>2. \A j \in DOMAIN otadata' : j < 2 => j = 1
    BY <1>3 DEF EntriesInv
  <2>3. QED
    BY <1>1, <1>3, <2>1, <2>2 DEF MarkedInv
<1>6. TaskInv' /\ RejectedInv'
  BY <1>1, <1>2, <1>3 DEF IInv, TaskInv, RejectedInv, Installing, Confirmed
<1>7. QED
  BY <1>3, <1>4, <1>5, <1>6 DEF IInv

LEMMA MarkFailsKeeps ==
  ASSUME FaultsAssumption, IInv, MarkFails
  PROVE  IInv' /\ StartsWell
<1>1. /\ ram' = [ram EXCEPT !.pc = "check", !.activity = "idle"] /\ ram.pc = "mark" /\ Installing
      /\ UNCHANGED <<flash, nvs, run, offered, proven>> /\ unmarked' = TRUE
      /\ SetBoot(run) \/ UNCHANGED otadata
      /\ run \in Slots
  BY DEF MarkFails, Defers, Installing, IInv, TypeOK
<1>2. /\ ram' \in Rams /\ ram'.pc = "check" /\ ram'.boot = ram.boot
      /\ ram'.disabled = ram.disabled /\ ram'.rejected = ram.rejected
  BY <1>1 DEF IInv, TypeOK, Rams
<1>3. faults' \in 0 .. MaxFaults
  BY DEF MarkFails, FaultsAssumption, IInv, TypeOK
<1>4. /\ EntriesInv' /\ RunInv' /\ ConfirmedInv' /\ TestedInv' /\ ~Pending' /\ StartsWell
      /\ \A i \in DOMAIN otadata' : otadata'[i] \in Entries
  <2>1. CASE SetBoot(run)
    BY <1>1, <2>1, SetBootKeeps
  <2>2. CASE UNCHANGED otadata
    <3>1. \A i \in DOMAIN otadata' : otadata'[i] \in Entries
      BY <2>2 DEF IInv, EntriesInv
    <3>2. QED
      BY <1>1, <2>2, <3>1, StaysKept, InstallingIs
  <2>3. QED
    BY <1>1, <2>1, <2>2
<1>5. TypeOK'
  BY <1>1, <1>2, <1>3, <1>4 DEF IInv, TypeOK, Rams, Entries, EntriesInv
<1>6. TaskInv' /\ RejectedInv'
  BY <1>1, <1>2, <1>4 DEF IInv, TaskInv, RejectedInv, Installing, Confirmed
<1>7. QED
  BY <1>1, <1>4, <1>5, <1>6 DEF IInv

LEMMA MarkAttemptedKeeps ==
  ASSUME ReleasesAssumption, FaultsAssumption, IInv, MarkAttempted
  PROVE  IInv' /\ StartsWell
<1>1. nvs' \in [attempted : Releases \cup {0}, rejected : Releases \cup {0}]
  BY DEF MarkAttempted, IInv, TypeOK, NoRelease
<1>2. Boot /\ UNCHANGED <<flash, offered, proven, unmarked, faults>> /\ faults \in 0 .. MaxFaults
  BY DEF MarkAttempted, IInv, TypeOK
<1>3. QED
  BY <1>1, <1>2, BootKeeps

LEMMA PowerLossKeeps ==
  ASSUME ReleasesAssumption, FaultsAssumption, IInv, PowerLoss
  PROVE  IInv' /\ StartsWell
<1>1. /\ faults' \in 0 .. MaxFaults /\ Boot /\ UNCHANGED <<flash, nvs, offered, proven, unmarked>>
      /\ nvs \in [attempted : Releases \cup {0}, rejected : Releases \cup {0}]
  BY DEF PowerLoss, FaultsAssumption, IInv, TypeOK
<1>2. QED
  BY <1>1, BootKeeps

-----------------------------------------------------------------------------
(* The recorder as it leaves the bench: the first release, confirmed.      *)
LEMMA InitInv ==
  ASSUME ReleasesAssumption, FaultsAssumption, Init
  PROVE  IInv
<1>1. Base \in Good /\ Base \in Releases /\ Base \in Nat \ {0}
  BY DEF ReleasesAssumption, Base
<1>2. /\ flash \in [Slots -> Releases \cup {Torn}] /\ flash[1] = Base
      /\ run = 1 /\ 1 \in Slots
  BY <1>1 DEF Init, Slots
<1>3. /\ Len(otadata) = 1 /\ DOMAIN otadata = 1 .. 1 /\ otadata \in Seq(Entries)
      /\ otadata[1] = [slot |-> 1, state |-> "valid"] /\ otadata[1] \in Entries
  BY DEF Init, Entries, Slots
<1>4. /\ ram = ColdRam /\ ram \in Rams /\ ram.pc = "check" /\ ram.boot = "checking"
  BY DEF Init, ColdRam, Rams
<1>5. TypeOK
  <2>1. /\ nvs \in [attempted : Releases \cup {0}, rejected : Releases \cup {0}]
        /\ offered \in Releases /\ proven \subseteq Good
    BY <1>1 DEF Init
  <2>2. unmarked \in BOOLEAN /\ faults \in 0 .. MaxFaults
    <3>1. unmarked \in BOOLEAN
      BY DEF Init
    <3>2. faults = 0
      BY DEF Init
    <3>3. faults \in 0 .. MaxFaults
      BY <3>2 DEF FaultsAssumption
    <3>4. QED
      BY <3>1, <3>3
  <2>3. \A i \in DOMAIN otadata : otadata[i] \in Entries
    BY <1>3
  <2>4. QED
    BY <1>2, <1>3, <1>4, <2>1, <2>2, <2>3 DEF TypeOK, Rams, Entries
<1>6. EntriesInv /\ RunInv
  BY <1>1, <1>2, <1>3 DEF EntriesInv, RunInv, Current, Torn
<1>7. ConfirmedInv /\ TestedInv
  BY <1>2, <1>3 DEF Init, ConfirmedInv, TestedInv, IsFirst
<1>8. TaskInv /\ RejectedInv
  BY <1>4 DEF TaskInv, RejectedInv, Installing
<1>9. MarkedInv
  BY <1>3 DEF MarkedInv, HasConfirmed, IsFirst, Before
<1>10. QED
  BY <1>5, <1>6, <1>7, <1>8, <1>9 DEF IInv

(* Every step of the recorder and of its surroundings.                     *)
LEMMA NextKeeps ==
  ASSUME ReleasesAssumption, FaultsAssumption, IInv, [Next]_otaVars
  PROVE  IInv' /\ StartsWell
<1>1. CASE Publish
  BY <1>1, PublishKeeps
<1>2. CASE PowerLoss
  BY <1>2, PowerLossKeeps
<1>3. CASE ConfirmBoot
  BY <1>3, ConfirmBootKeeps
<1>4. CASE OthersClaim \/ OthersRelease
  BY <1>4, OthersKeep
<1>5. CASE FetchManifest \/ DropOffer \/ Claim
  BY <1>5, OfferKeeps
<1>6. CASE OpenFails \/ InstallFails
  BY <1>6, FailureKeeps
<1>7. CASE MarkFails
  BY <1>7, MarkFailsKeeps
<1>8. CASE Begin \/ WriteEnds
  BY <1>8, WriteKeeps
<1>9. CASE SwitchBoot
  BY <1>9, SwitchBootKeeps
<1>10. CASE MarkAttempted
  BY <1>10, MarkAttemptedKeeps
<1>11. CASE UNCHANGED otaVars
  <2>1. UNCHANGED <<flash, otadata, nvs, run, ram, offered, proven, unmarked, faults>>
    BY <1>11 DEF otaVars
  <2>2. TypeOK' /\ TaskInv' /\ RejectedInv'
    BY <2>1 DEF IInv, TypeOK, TaskInv, RejectedInv, Installing, Confirmed, Pending
  <2>3. QED
    BY <2>1, <2>2, StaysKept DEF IInv
<1>12. QED
  BY <1>1, <1>2, <1>3, <1>4, <1>5, <1>6, <1>7, <1>8, <1>9, <1>10, <1>11
     DEF Next, OtaTask, Install

LEMMA Keeps ==
  ASSUME ReleasesAssumption, IInv
  PROVE  ProvenReleaseKept
<1>1. ~unmarked => HasConfirmed
  BY DEF IInv, MarkedInv
<1>2. ASSUME HasConfirmed PROVE \E s \in Slots : flash[s] \in proven
  <2>1. DOMAIN otadata = 1 .. Len(otadata) /\ Len(otadata) \in 1 .. 2
        /\ \A i \in DOMAIN otadata : otadata[i] \in Entries
    BY TypesAre DEF IInv, EntriesInv
  <2>2. PICK i \in DOMAIN otadata : otadata[i].state = "valid"
    BY <1>2 DEF HasConfirmed
  <2>3. PICK f \in 1 .. 2 : IsFirst(f)
    BY <2>2, FirstIs DEF IInv
  <2>4. otadata[f] \in Entries /\ flash[otadata[f].slot] \in proven
    BY <2>1, <2>3 DEF IInv, ConfirmedInv, IsFirst
  <2>5. QED
    BY <2>4 DEF Entries
<1>3. Current # Torn /\ flash[BootSlot(Aborted(otadata))] # Torn
  BY BootSlotIs DEF IInv, RunInv
<1>4. ram.pc \in {"begin", "write", "switch", "mark"} => ram.activity = "ota" /\ Confirmed
  BY InstallingIs DEF Installing
<1>5. QED
  BY <1>1, <1>2, <1>3, <1>4 DEF ProvenReleaseKept

-----------------------------------------------------------------------------
(* The strengthened invariant of every reachable state.                    *)
THEOREM Invariance == ReleasesAssumption /\ FaultsAssumption => (Spec => []IInv)
<1> SUFFICES ASSUME ReleasesAssumption, FaultsAssumption PROVE Spec => []IInv
  OBVIOUS
<1>1. Init => IInv
  BY InitInv
<1>2. IInv /\ [Next]_otaVars => IInv'
  BY NextKeeps
<1>3. QED
  BY <1>1, <1>2, PTL DEF Spec

(* Every variable of the update stays in its type, for any releases and    *)
(* any number of faults.                                                   *)
THEOREM TypeCorrect == ReleasesAssumption /\ FaultsAssumption => (Spec => []TypeOK)
<1> SUFFICES ASSUME ReleasesAssumption, FaultsAssumption PROVE Spec => []TypeOK
  OBVIOUS
<1>1. IInv => TypeOK
  BY DEF IInv
<1>2. QED
  BY <1>1, Invariance, PTL

(* Whichever step of an installation loses its power, and however often,   *)
(* a release that passed its self-test stays whole in a slot while the     *)
(* boot loader has a confirmed entry, which it has until a marker could    *)
(* not be written; the running image is whole and so is the next to start. *)
THEOREM KeptHolds == ReleasesAssumption /\ FaultsAssumption => (Spec => []ProvenReleaseKept)
<1> SUFFICES ASSUME ReleasesAssumption, FaultsAssumption PROVE Spec => []ProvenReleaseKept
  OBVIOUS
<1>1. IInv => ProvenReleaseKept
  BY Keeps
<1>2. QED
  BY <1>1, Invariance, PTL

(* As long as every marker could be written, the running image changes     *)
(* only to one newer than what NVS holds as rejected, or back to one that  *)
(* passed its self-test.                                                   *)
THEOREM RejectedHolds == ReleasesAssumption /\ FaultsAssumption => (Spec => RejectedIsFinal)
<1> SUFFICES ASSUME ReleasesAssumption, FaultsAssumption PROVE Spec => RejectedIsFinal
  OBVIOUS
<1>1. IInv /\ [Next]_otaVars =>
        [~unmarked' /\ flash'[run'] # Current =>
           flash'[run'] > nvs.rejected \/ flash'[run'] \in proven]_otaVars
  BY NextKeeps DEF StartsWell
<1>2. QED
  BY <1>1, Invariance, PTL DEF Spec, RejectedIsFinal

(* FirmwareKept of the recorder's run, for any releases and faults.        *)
THEOREM FirmwareHolds == ReleasesAssumption /\ FaultsAssumption => (Spec => FirmwareKept)
BY KeptHolds, RejectedHolds, PTL DEF FirmwareKept

=============================================================================
