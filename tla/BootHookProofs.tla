--------------------------- MODULE BootHookProofs ---------------------------
(* Theorems about krypt-stick's work on sticks and slots (StickSlots) and the *)
(* boot hook that uses them (BootHook).                                      *)
EXTENDS BootHook, TLAPS

----------------------------------------------------------------------------
(* The invariant                                                             *)

Adding(r) == run[r].pc \in {"sync", "slot", "add"}   \* its key is drawn and in no slot yet

(* What a run's record holds at each point of it.                            *)
Shape ==
  \A r \in Run :
    /\ run[r].pc \in {"sync", "slot", "add", "report"} =>
         run[r].key \in 1 .. made /\ run[r].stick = home[run[r].key]
    /\ run[r].pc \in {"idle", "checked", "kill"} => run[r].key = None
    /\ run[r].pc \in {"add", "kill"} => run[r].slot \in Slot
    /\ run[r].pc = "checked" => run[r].stick \in Stick

(* A key that is anywhere was drawn before, for the stick it is on.          *)
Drawn ==
  /\ \A k \in 1 .. made : home[k] \in Stick
  /\ \A st \in Stick : /\ media[st] \in Key => media[st] \in 1 .. made /\ home[media[st]] = st
                       /\ cache[st] \in Key => cache[st] \in 1 .. made /\ home[cache[st]] = st
  /\ \A s \in Slot : header[s] \in Key => header[s] \in 1 .. made
  /\ told \subseteq 1 .. made /\ written_over \subseteq 1 .. made /\ revoked \subseteq 0 .. made

(* A key has one run and one slot.                                           *)
Single ==
  /\ \A s, t \in Slot : header[s] = header[t] /\ header[s] # None => s = t
  /\ \A r, q \in Run : run[r].key = run[q].key /\ run[r].key # None => r = q
  /\ \A r \in Run : Adding(r) => run[r].key \notin revoked /\ \A s \in Slot : header[s] # run[r].key

Durable(k) == media[home[k]] = k \/ k \in written_over

(* A key whose run is past fsync is durable; before that it is what a read of *)
(* the stick returns.  What a write in the cache will replace is written over.*)
Held ==
  /\ \A st \in Stick : cache[st] # None /\ media[st] \in Key /\ media[st] # cache[st] => media[st] \in written_over
  /\ \A r \in Run, st \in Stick : run[r].pc = "sync" /\ run[r].stick = st =>
       View(st) = run[r].key \/ run[r].key \in written_over
  /\ \A r \in Run, k \in Key : run[r].pc \in {"slot", "add", "report"} /\ run[r].key = k => Durable(k)
  /\ \A r \in Run, k \in Key : run[r].pc = "report" /\ run[r].key = k => k \in revoked \/ InSlot(k)
  /\ \A s \in Slot, k \in Key : header[s] = k => Durable(k)
  /\ \A k \in told : Durable(k) /\ (k \in revoked \/ InSlot(k))
  /\ RevokedStaysOut

SInv == StickTypeOK /\ Shape /\ Drawn /\ Single /\ Held

LEMMA Constants ==
  /\ Key \subseteq Nat /\ 0 \notin Key /\ None \notin Key /\ None # 0 /\ None \notin Stick
  /\ Gpt \notin Key /\ Blank \notin Key /\ Gpt # None /\ Blank # None
  /\ SlotMax \in Nat /\ MaxKey \in Nat /\ Slot \subseteq Nat /\ 0 \in Slot
BY SizeAssumption, FreshAssumption DEF Key, Slot

RunRecord == [pc : Pcs, stick : Stick \cup {None}, key : Key \cup {None}, slot : Slot \cup {None}]

LEMMA SInit == StickInit => SInv
<1> SUFFICES ASSUME StickInit PROVE SInv OBVIOUS
<1> USE Constants
<1>1. /\ \A r \in Run : run[r] = [pc |-> "idle", stick |-> None, key |-> None, slot |-> None]
      /\ run \in [Run -> RunRecord]
  BY DEF StickInit, Idle, Record, RunRecord, Pcs
<1>2. /\ \A st \in Stick : media[st] \in {Gpt, Blank} /\ cache[st] = None
      /\ media \in [Stick -> Contents] /\ cache \in [Stick -> Contents \cup {None}]
  BY DEF StickInit, Contents
<1>3. /\ \A s \in Slot : header[s] = IF s = 0 THEN 0 ELSE None
      /\ header \in [Slot -> Key \cup {Passphrase, None}]
  BY DEF StickInit, Passphrase
<1>4. /\ made = 0 /\ made \in 0 .. MaxKey /\ 1 .. made = {} /\ home \in [Key -> Stick \cup {None}] /\ port \subseteq Stick
      /\ told = {} /\ written_over = {} /\ revoked = {}
  BY DEF StickInit
<1>5. StickTypeOK
  BY <1>1, <1>2, <1>3, <1>4 DEF StickTypeOK, RunRecord
<1>6. Shape
  BY <1>1 DEF Shape
<1>7. Drawn
  BY <1>2, <1>3, <1>4 DEF Drawn
<1>8. Single
  BY <1>1, <1>3 DEF Single, Adding
<1>9. Held
  BY <1>1, <1>2, <1>3, <1>4 DEF Held, RevokedStaysOut
<1> QED BY <1>5, <1>6, <1>7, <1>8, <1>9 DEF SInv

----------------------------------------------------------------------------
(* The steps                                                                 *)

(* Runs begin, end or fail, sticks are plugged and pulled, the power goes:    *)
(* no key moves, and a cache is lost only with the runs that wait for it.     *)
LEMMA QuietInv ==
  ASSUME SInv, run' \in [Run -> RunRecord],
         \A q \in Run :
           \/ run'[q] = run[q]
           \/ /\ run'[q].pc \in {"idle", "checked", "kill"} /\ run'[q].key = None
              /\ run'[q].pc = "checked" => run'[q].stick \in Stick
              /\ run'[q].pc = "kill" => run'[q].slot \in Slot,
         cache' \in [Stick -> Contents \cup {None}],
         \A st \in Stick :
           \/ cache'[st] = cache[st]
           \/ cache'[st] = None /\ \A q \in Run : run'[q].pc = "sync" => run'[q].stick # st,
         port' \subseteq Stick,
         header' = header, media' = media, made' = made, home' = home,
         told' = told, written_over' = written_over, revoked' = revoked
  PROVE  SInv'
<1> USE Constants DEF SInv
<1>1. StickTypeOK'
  BY DEF StickTypeOK, RunRecord
<1>2. Shape'
  BY DEF Shape
<1>3. Drawn'
  BY DEF Drawn
<1>4. Single'
  BY DEF Single, Adding
<1>5. \A k \in Key : /\ Durable(k)' <=> Durable(k)
                     /\ InSlot(k)' <=> InSlot(k)
  BY DEF Durable, InSlot
<1>6. \A st \in Stick : cache'[st] = cache[st] => View(st)' = View(st)
  BY DEF View
<1>7. told \subseteq Key
  BY DEF StickTypeOK
<1>8. Held'
  <2>1. \A st \in Stick : cache'[st] # None /\ media'[st] \in Key /\ media'[st] # cache'[st] => media'[st] \in written_over'
    BY DEF Held
  <2>2. \A r \in Run, st \in Stick : run'[r].pc = "sync" /\ run'[r].stick = st =>
          View(st)' = run'[r].key \/ run'[r].key \in written_over'
    BY <1>6 DEF Held
  <2>3. \A r \in Run, k \in Key : run'[r].pc \in {"slot", "add", "report"} /\ run'[r].key = k => Durable(k)'
    BY <1>5 DEF Held
  <2>4. \A r \in Run, k \in Key : run'[r].pc = "report" /\ run'[r].key = k => k \in revoked' \/ InSlot(k)'
    BY <1>5 DEF Held
  <2>5. \A s \in Slot, k \in Key : header'[s] = k => Durable(k)'
    BY <1>5 DEF Held
  <2>6. \A k \in told' : Durable(k)' /\ (k \in revoked' \/ InSlot(k)')
    BY <1>5, <1>7 DEF Held
  <2>7. RevokedStaysOut'
    BY DEF Held, RevokedStaysOut
  <2> QED BY <2>1, <2>2, <2>3, <2>4, <2>5, <2>6, <2>7 DEF Held
<1> QED BY <1>1, <1>2, <1>3, <1>4, <1>8

LEMMA CheckGptInv ==
  ASSUME SInv, NEW r \in Run, NEW st \in Stick, CheckGpt(r, st) PROVE SInv'
<1> USE Constants
<1>1. run' = [run EXCEPT ![r] = [pc |-> "checked", stick |-> st, key |-> None, slot |-> None]]
  BY DEF Record, CheckGpt
<1>2. [pc |-> "checked", stick |-> st, key |-> None, slot |-> None] \in RunRecord
  BY DEF RunRecord, Pcs
<1>3. run \in [Run -> RunRecord] /\ cache \in [Stick -> Contents \cup {None}] /\ port \subseteq Stick
  BY DEF SInv, StickTypeOK, RunRecord
<1>4. header' = header /\ media' = media /\ cache' = cache /\ port' = port /\ made' = made /\ home' = home
      /\ told' = told /\ written_over' = written_over /\ revoked' = revoked
  BY DEF CheckGpt, diskVars, history
<1>5. \A q \in Run : run'[q] = IF q = r THEN [pc |-> "checked", stick |-> st, key |-> None, slot |-> None] ELSE run[q]
  BY <1>1, <1>3
<1>6. run' \in [Run -> RunRecord]
  BY <1>1, <1>2, <1>3
<1> QED BY <1>3, <1>4, <1>5, <1>6, QuietInv

LEMMA BeginRevokeInv ==
  ASSUME SInv, NEW r \in Run, NEW s \in Slot, BeginRevoke(r, s) PROVE SInv'
<1> USE Constants
<1>1. run' = [run EXCEPT ![r] = [pc |-> "kill", stick |-> None, key |-> None, slot |-> s]]
  BY DEF Record, BeginRevoke
<1>2. [pc |-> "kill", stick |-> None, key |-> None, slot |-> s] \in RunRecord
  BY DEF RunRecord, Pcs
<1>3. run \in [Run -> RunRecord] /\ cache \in [Stick -> Contents \cup {None}] /\ port \subseteq Stick
  BY DEF SInv, StickTypeOK, RunRecord
<1>4. header' = header /\ media' = media /\ cache' = cache /\ port' = port /\ made' = made /\ home' = home
      /\ told' = told /\ written_over' = written_over /\ revoked' = revoked
  BY DEF BeginRevoke, diskVars, history
<1>5. \A q \in Run : run'[q] = IF q = r THEN [pc |-> "kill", stick |-> None, key |-> None, slot |-> s] ELSE run[q]
  BY <1>1, <1>3
<1>6. run' \in [Run -> RunRecord]
  BY <1>1, <1>2, <1>3
<1> QED BY <1>3, <1>4, <1>5, <1>6, QuietInv

(* Some runs end, and the caches of sticks with no run left in them go.       *)
LEMMA DropInv ==
  ASSUME SInv, NEW R \in SUBSET Run, run' = [q \in Run |-> IF q \in R THEN Idle ELSE run[q]],
         NEW T \in SUBSET Stick, cache' = [st \in Stick |-> IF st \in T THEN None ELSE cache[st]],
         \A q \in Run \ R : run[q].pc = "sync" => run[q].stick \notin T,
         port' \subseteq Stick,
         header' = header, media' = media, made' = made, home' = home,
         told' = told, written_over' = written_over, revoked' = revoked
  PROVE  SInv'
<1> USE Constants
<1>1. /\ Idle \in RunRecord /\ Idle.pc = "idle" /\ Idle.key = None
      /\ run \in [Run -> RunRecord] /\ cache \in [Stick -> Contents \cup {None}]
  BY DEF Idle, Record, RunRecord, Pcs, SInv, StickTypeOK
<1>2. run' \in [Run -> RunRecord] /\ cache' \in [Stick -> Contents \cup {None}]
  BY <1>1
<1>3. \A q \in Run : run'[q] = run[q] \/ (run'[q].pc = "idle" /\ run'[q].key = None)
  BY <1>1
<1>4. \A st \in Stick : \/ cache'[st] = cache[st]
                        \/ cache'[st] = None /\ \A q \in Run : run'[q].pc = "sync" => run'[q].stick # st
  BY <1>1
<1> QED BY <1>2, <1>3, <1>4, QuietInv

LEMMA FailInv ==
  ASSUME SInv, NEW r \in Run, Fail(r) PROVE SInv'
<1> DEFINE R == {r}
<1> DEFINE T == {}
<1>1. run' = [q \in Run |-> IF q \in R THEN Idle ELSE run[q]]
  BY DEF Fail, SInv, StickTypeOK
<1>2. cache' = [st \in Stick |-> IF st \in T THEN None ELSE cache[st]]
  BY DEF Fail, diskVars, SInv, StickTypeOK
<1>3. header' = header /\ media' = media /\ port' \subseteq Stick /\ made' = made /\ home' = home
      /\ told' = told /\ written_over' = written_over /\ revoked' = revoked
  BY DEF Fail, diskVars, history, SInv, StickTypeOK
<1>4. R \in SUBSET Run /\ T \in SUBSET Stick /\ \A q \in Run \ R : run[q].pc = "sync" => run[q].stick \notin T
  OBVIOUS
<1> HIDE DEF R, T
<1> QED BY <1>1, <1>2, <1>3, <1>4, DropInv

LEMMA HandsInv ==
  ASSUME SInv, HandsNext \/ PowerLoss PROVE SInv'
<1>1. ASSUME NEW st \in Stick, Plug(st) PROVE SInv'
  <2> DEFINE R == {}
  <2> DEFINE T == {}
  <2>1. run' = [q \in Run |-> IF q \in R THEN Idle ELSE run[q]] /\ cache' = [tt \in Stick |-> IF tt \in T THEN None ELSE cache[tt]]
    BY <1>1 DEF Plug, SInv, StickTypeOK, runVars
  <2>2. header' = header /\ media' = media /\ port' \subseteq Stick /\ made' = made /\ home' = home
        /\ told' = told /\ written_over' = written_over /\ revoked' = revoked
    BY <1>1 DEF Plug, runVars, history, SInv, StickTypeOK
  <2>3. R \in SUBSET Run /\ T \in SUBSET Stick /\ \A q \in Run \ R : run[q].pc = "sync" => run[q].stick \notin T
    OBVIOUS
  <2> HIDE DEF R, T
  <2> QED BY <2>1, <2>2, <2>3, DropInv
<1>2. ASSUME NEW st \in Stick, Unplug(st) PROVE SInv'
  <2> DEFINE R == {q \in Run : run[q].stick = st /\ run[q].pc \in {"checked", "sync"}}
  <2>1. run' = [q \in Run |-> IF q \in R THEN Idle ELSE run[q]]
    BY <1>2 DEF Unplug
  <2> DEFINE T == {st}
  <2>2. cache' = [tt \in Stick |-> IF tt \in T THEN None ELSE cache[tt]]
    BY <1>2 DEF Unplug, SInv, StickTypeOK
  <2>3. header' = header /\ media' = media /\ port' \subseteq Stick /\ made' = made /\ home' = home
        /\ told' = told /\ written_over' = written_over /\ revoked' = revoked
    BY <1>2 DEF Unplug, history, SInv, StickTypeOK
  <2>4. R \in SUBSET Run /\ T \in SUBSET Stick /\ \A q \in Run \ R : run[q].pc = "sync" => run[q].stick \notin T
    OBVIOUS
  <2> HIDE DEF R, T
  <2> QED BY <2>1, <2>2, <2>3, <2>4, DropInv
<1>3. ASSUME PowerLoss PROVE SInv'
  <2>1. run' = [q \in Run |-> IF q \in Run THEN Idle ELSE run[q]] /\ cache' = [tt \in Stick |-> IF tt \in Stick THEN None ELSE cache[tt]]
    BY <1>3 DEF PowerLoss
  <2>2. header' = header /\ media' = media /\ port' \subseteq Stick /\ made' = made /\ home' = home
        /\ told' = told /\ written_over' = written_over /\ revoked' = revoked
    BY <1>3 DEF PowerLoss, history, SInv, StickTypeOK
  <2> QED BY <2>1, <2>2, DropInv
<1> QED BY <1>1, <1>2, <1>3 DEF HandsNext

LEMMA WriteInv ==
  ASSUME SInv, NEW r \in Run, NEW st \in Stick, DrawAndWrite(r, st),
         run[r].pc \in {"idle", "checked"}
  PROVE  SInv'
<1> USE Constants DEF SInv, DrawAndWrite
<1> DEFINE k == made + 1
<1>1. /\ \A q \in Run : run'[q] = IF q = r THEN [pc |-> "sync", stick |-> st, key |-> k, slot |-> None] ELSE run[q]
      /\ run' \in [Run -> RunRecord]
  <2>1. run' = [run EXCEPT ![r] = [pc |-> "sync", stick |-> st, key |-> k, slot |-> None]]
    BY DEF Record
  <2>2. [pc |-> "sync", stick |-> st, key |-> k, slot |-> None] \in RunRecord /\ run \in [Run -> RunRecord]
    BY DEF RunRecord, Pcs, Key, StickTypeOK
  <2> QED BY <2>1, <2>2
<1>2. k \in Key /\ k \notin 1 .. made /\ k \notin 0 .. made /\ 1 .. made' = 1 .. made \cup {k} /\ 0 .. made \subseteq 0 .. made'
      /\ made' \in 0 .. MaxKey
  BY DEF StickTypeOK, Key
<1>3. /\ \A j \in 1 .. made : home'[j] = home[j]
      /\ home'[k] = st /\ home' \in [Key -> Stick \cup {None}]
  BY <1>2 DEF StickTypeOK
<1>4. \A tt \in Stick : cache'[tt] = (IF tt = st THEN k ELSE cache[tt]) /\ media'[tt] = media[tt] /\ View(tt) \in Key \cup {Gpt, Blank, None}
  BY DEF StickTypeOK, View, Contents
<1>5. /\ written_over \subseteq written_over'
      /\ View(st) \in Key => View(st) \in written_over'
      /\ media[st] \in Key => media[st] \in written_over'
      /\ written_over' \subseteq 1 .. made
  <2>1. (View(st) \in Key => View(st) \in 1 .. made) /\ (media[st] \in Key => media[st] \in 1 .. made)
    BY DEF Drawn, View
  <2>2. written_over' = written_over \cup (({View(st)} \cup {media[st]}) \cap Key) /\ written_over \subseteq 1 .. made
    BY DEF Drawn
  <2> QED BY ONLY <2>1, <2>2
<1>6. StickTypeOK'
  <2>1. cache' \in [Stick -> Contents \cup {None}]
    BY <1>2 DEF StickTypeOK, Contents
  <2>2. written_over' \subseteq Key
    BY DEF StickTypeOK
  <2>3. header' = header /\ media' = media /\ port' = port /\ told' = told /\ revoked' = revoked
    OBVIOUS
  <2> QED BY <1>1, <1>2, <1>3, <2>1, <2>2, <2>3 DEF StickTypeOK, RunRecord
<1>7. Shape'
  BY <1>1, <1>2, <1>3 DEF Shape
<1>8. Drawn'
  BY <1>2, <1>3, <1>4, <1>5 DEF Drawn
<1>9. Single'
  <2>1. \A q \in Run : q # r => run'[q] = run[q] /\ run[q].key # k
    <3> SUFFICES ASSUME NEW q \in Run, q # r PROVE run[q].key # k
      BY <1>1
    <3>1. run[q].pc \in Pcs
      BY DEF StickTypeOK
    <3> QED BY <1>2, <3>1 DEF Shape, Pcs
  <2>2. \A s \in Slot : header'[s] = header[s] /\ header[s] # k
    BY <1>2 DEF Drawn
  <2>3. k \notin revoked /\ revoked' = revoked
    BY <1>2 DEF Drawn
  <2>4. run'[r].key = k /\ k # None
    BY <1>1, <1>2
  <2> QED BY <2>1, <2>2, <2>3, <2>4 DEF Single, Adding
<1>10. Held'
  <2>1. \A j \in 1 .. made : Durable(j) => Durable(j)'
    BY <1>3, <1>5 DEF Durable
  <2>2. \A tt \in Stick : cache'[tt] # None /\ media'[tt] \in Key /\ media'[tt] # cache'[tt] => media'[tt] \in written_over'
    BY <1>4, <1>5 DEF Held
  <2>3. \A q \in Run, tt \in Stick : run'[q].pc = "sync" /\ run'[q].stick = tt =>
          View(tt)' = run'[q].key \/ run'[q].key \in written_over'
    <3> SUFFICES ASSUME NEW q \in Run, NEW tt \in Stick, run'[q].pc = "sync", run'[q].stick = tt
                 PROVE  View(tt)' = run'[q].key \/ run'[q].key \in written_over'
      OBVIOUS
    <3>1. CASE q = r
      BY <1>1, <1>2, <1>4, <3>1, k # None DEF View
    <3>2. CASE q # r
      <4>1. run'[q] = run[q] /\ run[q].pc = "sync" /\ run[q].stick = tt /\ run[q].key \in 1 .. made
        BY <1>1, <3>2 DEF Shape
      <4>2. View(tt) = run[q].key \/ run[q].key \in written_over
        BY <4>1 DEF Held
      <4>3. CASE tt = st
        BY <1>2, <1>5, <4>1, <4>2, <4>3 DEF Key, StickTypeOK
      <4>4. CASE tt # st
        BY <1>4, <1>5, <4>1, <4>2, <4>4 DEF View
      <4> QED BY <4>3, <4>4
    <3> QED BY <3>1, <3>2
  <2>4. \A q \in Run, j \in Key : run'[q].pc \in {"slot", "add", "report"} /\ run'[q].key = j => Durable(j)'
    BY <1>1, <2>1 DEF Held, Shape
  <2>5. \A q \in Run, j \in Key : run'[q].pc = "report" /\ run'[q].key = j => j \in revoked' \/ InSlot(j)'
    BY <1>1 DEF Held, InSlot
  <2>6. \A s \in Slot, j \in Key : header'[s] = j => Durable(j)'
    BY <2>1 DEF Held, Drawn
  <2>7. \A j \in told' : Durable(j)' /\ (j \in revoked' \/ InSlot(j)')
    BY <2>1 DEF Held, Drawn, InSlot
  <2>8. RevokedStaysOut'
    BY DEF Held, RevokedStaysOut
  <2> QED BY <2>2, <2>3, <2>4, <2>5, <2>6, <2>7, <2>8 DEF Held
<1> QED BY <1>6, <1>7, <1>8, <1>9, <1>10

(* Write-back and fsync make what a read returned durable.                   *)
LEMMA FlushKeeps ==
  ASSUME SInv, NEW st \in Stick, media' = [media EXCEPT ![st] = View(st)],
         cache' = [cache EXCEPT ![st] = None], UNCHANGED <<home, written_over>>
  PROVE  /\ \A k \in 1 .. made : Durable(k) => Durable(k)'
         /\ \A tt \in Stick : View(tt)' = View(tt)
         /\ media'[st] = View(st)
<1> USE Constants DEF SInv
<1>1. \A tt \in Stick : media'[tt] = (IF tt = st THEN View(st) ELSE media[tt]) /\ cache'[tt] = (IF tt = st THEN None ELSE cache[tt])
  BY DEF StickTypeOK
<1>2. \A tt \in Stick : View(tt)' = View(tt)
  BY <1>1 DEF View
<1>3. ASSUME NEW k \in 1 .. made, Durable(k) PROVE Durable(k)'
  <2>1. home[k] \in Stick /\ k \in Key
    BY DEF Drawn, StickTypeOK, Key
  <2>2. CASE media[home[k]] = k /\ home[k] = st /\ View(st) # k
    <3>1. cache[st] # None /\ media[st] # cache[st]
      BY <2>2 DEF View
    <3> QED BY <2>1, <2>2, <3>1 DEF Held, Durable
  <2> QED BY <1>1, <1>3, <2>1, <2>2 DEF Durable
<1> QED BY <1>1, <1>2, <1>3

LEMMA FlushInv ==
  ASSUME SInv, NEW st \in Stick, media' = [media EXCEPT ![st] = View(st)],
         cache' = [cache EXCEPT ![st] = None], UNCHANGED <<header, port, made, home, history>>,
         \/ UNCHANGED run
         \/ \E r \in Run : run[r].pc = "sync" /\ run[r].stick = st /\ Goto(r, "slot")
  PROVE  SInv'
<1> USE Constants DEF SInv, history
<1>1. \A tt \in Stick : media'[tt] = (IF tt = st THEN View(st) ELSE media[tt]) /\ cache'[tt] = (IF tt = st THEN None ELSE cache[tt])
  BY DEF StickTypeOK
<1>2. \A q \in Run : /\ run'[q].key = run[q].key /\ run'[q].stick = run[q].stick /\ run'[q].slot = run[q].slot
                     /\ run'[q].pc = run[q].pc \/ (run'[q].pc = "slot" /\ run[q].pc = "sync" /\ run[q].stick = st)
  BY DEF StickTypeOK, Goto
<1>3. run' \in [Run -> RunRecord]
  BY DEF StickTypeOK, Goto, Pcs, RunRecord
<1>4. View(st) \in Contents
  BY DEF View, StickTypeOK
<1>5. StickTypeOK'
  BY <1>3, <1>4 DEF StickTypeOK, RunRecord
<1>6. Shape'
  BY <1>2 DEF Shape
<1>7. Drawn'
  BY <1>1 DEF Drawn, View
<1>8. Single'
  BY <1>2 DEF Single, Adding
<1>9. Held'
  <2>1. /\ \A k \in 1 .. made : Durable(k) => Durable(k)'
        /\ \A tt \in Stick : View(tt)' = View(tt)
    BY FlushKeeps
  <2>2. \A tt \in Stick : cache'[tt] # None /\ media'[tt] \in Key /\ media'[tt] # cache'[tt] => media'[tt] \in written_over'
    BY <1>1 DEF Held
  <2>3. \A q \in Run, tt \in Stick : run'[q].pc = "sync" /\ run'[q].stick = tt =>
          View(tt)' = run'[q].key \/ run'[q].key \in written_over'
    <3> SUFFICES ASSUME NEW q \in Run, NEW tt \in Stick, run'[q].pc = "sync", run'[q].stick = tt
                 PROVE  View(tt)' = run'[q].key \/ run'[q].key \in written_over'
      OBVIOUS
    <3>1. run[q].pc = "sync" /\ run[q].stick \in Stick
      BY <1>2 DEF Shape, Drawn
    <3> QED BY <1>2, <2>1, <3>1 DEF Held
  <2>4. \A q \in Run, j \in Key : run'[q].pc \in {"slot", "add", "report"} /\ run'[q].key = j => Durable(j)'
    <3> SUFFICES ASSUME NEW q \in Run, NEW j \in Key, run'[q].pc \in {"slot", "add", "report"}, run[q].key = j
                 PROVE  Durable(j)'
      BY <1>2
    <3>1. j \in 1 .. made /\ run[q].stick = home[j]
      BY <1>2 DEF Shape
    <3>2. CASE run[q].pc = run'[q].pc
      BY <2>1, <3>1, <3>2 DEF Held
    <3>3. CASE run[q].pc = "sync" /\ run[q].stick = st
      BY <1>1, <3>1, <3>3 DEF Held, Durable
    <3> QED BY <1>2, <3>2, <3>3
  <2>5. \A q \in Run, j \in Key : run'[q].pc = "report" /\ run'[q].key = j => j \in revoked' \/ InSlot(j)'
    BY <1>2 DEF Held, InSlot
  <2>6. \A s \in Slot, j \in Key : header'[s] = j => Durable(j)'
    BY <2>1 DEF Held, Drawn
  <2>7. \A j \in told' : Durable(j)' /\ (j \in revoked' \/ InSlot(j)')
    BY <2>1 DEF Held, Drawn, InSlot
  <2>8. RevokedStaysOut'
    BY DEF Held, RevokedStaysOut
  <2> QED BY <2>2, <2>3, <2>4, <2>5, <2>6, <2>7, <2>8 DEF Held
<1> QED BY <1>5, <1>6, <1>7, <1>8, <1>9

(* The steps between fsync and the report change one run, one slot and the    *)
(* histories; what is durable stays so.                                      *)
LEMMA SlotInv ==
  ASSUME SInv, NEW r \in Run, run[r].pc \in {"slot", "add", "report", "kill"},
         PickSlot(r) \/ AddKey(r) \/ Report(r) \/ KillSlot(r)
  PROVE  SInv'
<1> USE Constants DEF SInv
<1> DEFINE k == run[r].key
<1>1. /\ media' = media /\ cache' = cache /\ port' = port /\ made' = made /\ home' = home
      /\ written_over' = written_over
  BY DEF PickSlot, AddKey, Report, KillSlot, diskVars, history
<1>2. /\ \A j \in Key : Durable(j)' <=> Durable(j)
      /\ \A st \in Stick : View(st)' = View(st)
      /\ told \subseteq Key /\ 1 .. made \subseteq Key
  BY <1>1 DEF Durable, View, StickTypeOK, Key
<1>3. \A q \in Run \ {r} : run'[q] = run[q]
  BY DEF PickSlot, AddKey, Report, KillSlot, StickTypeOK, Goto
<1>4. CASE PickSlot(r)
  <2>1. /\ run[r].pc = "slot" /\ run'[r].pc = "add" /\ run'[r].key = k /\ run'[r].stick = run[r].stick
        /\ run'[r].slot \in Slot /\ run' \in [Run -> RunRecord]
        /\ header' = header /\ told' = told /\ revoked' = revoked
    <3>1. PICK s \in Slot : run' = [run EXCEPT ![r].pc = "add", ![r].slot = s]
      BY <1>4 DEF PickSlot, Free
    <3>2. run \in [Run -> RunRecord] /\ "add" \in Pcs
      BY DEF StickTypeOK, RunRecord, Pcs
    <3>3. /\ run'[r].pc = "add" /\ run'[r].key = k /\ run'[r].stick = run[r].stick /\ run'[r].slot = s
          /\ run' \in [Run -> RunRecord]
      BY <3>1, <3>2 DEF RunRecord
    <3> QED BY <1>4, <3>3 DEF PickSlot, history
  <2>2. StickTypeOK'
    BY <1>1, <2>1 DEF StickTypeOK, RunRecord
  <2>3. Shape'
    BY <1>1, <1>3, <2>1 DEF Shape
  <2>4. Drawn' /\ Single'
    <3>1. \A q \in Run : run'[q].key = run[q].key /\ (Adding(q)' => Adding(q))
      BY <1>3, <2>1 DEF Adding
    <3> QED BY <1>1, <2>1, <3>1 DEF Drawn, Single
  <2>5. Held'
    <3>1. \A q \in Run : /\ run'[q].key = run[q].key /\ run'[q].stick = run[q].stick
                        /\ (run'[q].pc \in {"slot", "add", "report"} => run[q].pc \in {"slot", "add", "report"})
                        /\ (run'[q].pc = "sync" => run[q].pc = "sync")
                        /\ (run'[q].pc = "report" => run[q].pc = "report")
      BY <1>3, <2>1
    <3>2. \A j \in Key : InSlot(j)' <=> InSlot(j)
      BY <2>1 DEF InSlot
    <3> HIDE DEF SInv
    <3> QED BY <1>1, <1>2, <2>1, <3>1, <3>2 DEF Held, RevokedStaysOut, SInv
  <2> QED BY <2>2, <2>3, <2>4, <2>5
<1>5. CASE AddKey(r)
  <2>1. /\ run[r].pc = "add" /\ run'[r].pc = "report" /\ run'[r].key = k /\ run'[r].stick = run[r].stick
        /\ run' \in [Run -> RunRecord] /\ told' = told /\ revoked' = revoked
    BY <1>5 DEF AddKey, Goto, StickTypeOK, RunRecord, Pcs, history
  <2>2. k \in 1 .. made /\ k \in Key /\ run[r].slot \in Slot /\ k \notin revoked /\ Durable(k)
        /\ \A s \in Slot : header[s] # k
    BY <1>2, <2>1 DEF Shape, Single, Adding, Held
  <2>3. /\ \A s \in Slot : header'[s] = IF s = run[r].slot THEN k ELSE header[s]
        /\ header' \in [Slot -> Key \cup {Passphrase, None}] /\ header[run[r].slot] = None
    BY <1>5, <2>2 DEF AddKey, StickTypeOK
  <2>4. StickTypeOK'
    BY <1>1, <2>1, <2>3 DEF StickTypeOK, RunRecord
  <2>5. Shape'
    BY <1>1, <1>3, <2>1 DEF Shape
  <2>6. Drawn'
    BY <1>1, <2>1, <2>2, <2>3 DEF Drawn
  <2>7. Single'
    BY <1>3, <2>1, <2>2, <2>3 DEF Single, Adding
  <2>8. \A j \in Key : (InSlot(j)' <=> InSlot(j) \/ j = k)
    BY <2>2, <2>3 DEF InSlot
  <2>9. Held'
    BY <1>1, <1>2, <1>3, <2>1, <2>2, <2>3, <2>8 DEF Held, RevokedStaysOut
  <2> QED BY <2>4, <2>5, <2>6, <2>7, <2>9
<1>6. CASE Report(r)
  <2>1. /\ run[r].pc = "report" /\ run'[r].pc = "idle" /\ run'[r].key = None
        /\ run' \in [Run -> RunRecord] /\ header' = header /\ told' = told \cup {k} /\ revoked' = revoked
    BY <1>6 DEF Report, StickTypeOK, RunRecord, Record, Idle, Pcs
  <2>2. k \in 1 .. made /\ k \in Key /\ Durable(k) /\ (k \in revoked \/ InSlot(k))
    BY <1>2, <2>1 DEF Shape, Held
  <2>3. StickTypeOK'
    BY <1>1, <2>1, <2>2 DEF StickTypeOK, RunRecord
  <2>4. Shape'
    BY <1>1, <1>3, <2>1 DEF Shape
  <2>5. Drawn'
    BY <1>1, <2>1, <2>2 DEF Drawn
  <2>8. Single'
    <3>1. \A q \in Run : run'[q] = run[q] \/ (run'[q].key = None /\ ~Adding(q)')
      BY <1>3, <2>1 DEF Adding
    <3>2. \A q \in Run : Adding(q)' => Adding(q) /\ run'[q] = run[q]
      BY <3>1 DEF Adding
    <3>3. \A q \in Run : /\ Adding(q)' => Adding(q) /\ run'[q].key = run[q].key
                         /\ run'[q].key = run[q].key \/ run'[q].key = None
      BY <3>1, <3>2
    <3>4. Single
      OBVIOUS
    <3> HIDE DEF SInv
    <3> QED BY <2>1, <3>3, <3>4 DEF Single
  <2>6. \A j \in Key : InSlot(j)' <=> InSlot(j)
    BY <2>1 DEF InSlot
  <2>7. Held'
    <3>1. \A q \in Run : run'[q].pc \in {"sync", "slot", "add", "report"} => run'[q] = run[q]
      BY <1>3, <2>1
    <3>2. \A j \in told' : Durable(j)' /\ (j \in revoked' \/ InSlot(j)')
      BY <1>2, <2>1, <2>2, <2>6 DEF Held
    <3>3. RevokedStaysOut'
      BY <2>1 DEF Held, RevokedStaysOut
    <3> QED BY <1>1, <1>2, <2>1, <2>6, <3>1, <3>2, <3>3 DEF Held
  <2> QED BY <2>3, <2>4, <2>5, <2>7, <2>8
<1>7. CASE KillSlot(r)
  <2>1. /\ run[r].pc = "kill" /\ run'[r].pc = "idle" /\ run'[r].key = None
        /\ run' \in [Run -> RunRecord] /\ told' = told
    BY <1>7 DEF KillSlot, StickTypeOK, RunRecord, Record, Idle, Pcs
  <2> DEFINE gone == header[run[r].slot]
  <2>2. /\ run[r].slot \in Slot /\ gone # None /\ gone \in Key \cup {Passphrase}
        /\ \A s \in Slot : header'[s] = (IF s = run[r].slot THEN None ELSE header[s])
        /\ header' \in [Slot -> Key \cup {Passphrase, None}] /\ revoked' = revoked \cup {gone}
    BY <1>7, <2>1 DEF KillSlot, StickTypeOK, Shape
  <2>3. /\ gone \in 0 .. made
        /\ \A s \in Slot : header[s] = gone => s = run[r].slot
        /\ \A q \in Run : Adding(q) => run[q].key # gone
    <3>1. gone \in 0 .. made
      <4>1. made \in Nat
        BY DEF StickTypeOK
      <4>2. gone \in Key => gone \in 1 .. made
        BY <2>2 DEF Drawn
      <4> HIDE DEF gone
      <4> QED BY <2>2, <4>1, <4>2 DEF Passphrase
    <3>2. \A s \in Slot : header[s] = gone => s = run[r].slot
      BY <2>2 DEF Single
    <3>3. \A q \in Run : Adding(q) => run[q].key # gone
      BY <2>2 DEF Single
    <3> QED BY <3>1, <3>2, <3>3
  <2> HIDE DEF gone
  <2>4. StickTypeOK'
    BY <1>1, <2>1, <2>2 DEF StickTypeOK, RunRecord
  <2>5. Shape'
    BY <1>1, <1>3, <2>1 DEF Shape
  <2>6. Drawn'
    BY <1>1, <2>1, <2>2, <2>3 DEF Drawn
  <2>7. Single'
    <3>1. \A q \in Run : /\ run'[q].key = run[q].key \/ run'[q].key = None
                        /\ (Adding(q)' => Adding(q) /\ run'[q].key = run[q].key)
      BY <1>3, <2>1 DEF Adding
    <3>2. \A s \in Slot : header'[s] = header[s] \/ header'[s] = None
      BY <2>2
    <3>3. \A s, t \in Slot : header'[s] = header'[t] /\ header'[s] # None => s = t
      BY <3>2 DEF Single
    <3>4. \A q, p \in Run : run'[q].key = run'[p].key /\ run'[q].key # None => q = p
      BY <3>1 DEF Single
    <3>5. ASSUME NEW q \in Run, Adding(q)' PROVE run'[q].key \notin revoked' /\ \A s \in Slot : header'[s] # run'[q].key
      <4>1. Adding(q) /\ run'[q].key = run[q].key /\ run[q].key # None /\ run[q].key # gone
        BY <1>2, <2>3, <3>1, <3>5 DEF Shape, Adding
      <4> QED BY <2>2, <3>2, <4>1 DEF Single
    <3> QED BY <3>3, <3>4, <3>5 DEF Single
  <2>8. \A j \in Key : InSlot(j) => InSlot(j)' \/ j \in revoked'
    BY <2>2 DEF InSlot, gone
  <2>9. Held'
    <3>1. \A q \in Run : run'[q] = run[q] \/ (run'[q].pc = "idle" /\ run'[q].key = None)
      BY <1>3, <2>1
    <3>2. RevokedStaysOut'
      <4>1. None \notin revoked
        BY DEF StickTypeOK, Passphrase
      <4> QED BY <2>2, <2>3, <4>1 DEF Held, RevokedStaysOut
    <3>3. \A s \in Slot, j \in Key : header'[s] = j => header[s] = j
      BY <2>2
    <3> HIDE DEF k
    <3> QED BY <1>1, <1>2, <2>1, <2>2, <2>8, <3>1, <3>2, <3>3 DEF Held
  <2> QED BY <2>4, <2>5, <2>6, <2>7, <2>9
<1> QED BY <1>4, <1>5, <1>6, <1>7

LEMMA StickStep ==
  ASSUME SInv, StickNext \/ HandsNext \/ PowerLoss PROVE SInv'
<1>1. ASSUME NEW r \in Run, RunStep(r) PROVE SInv'
  <2>1. CASE Confirm(r)
    <3>1. run[r].stick \in Stick /\ run[r].pc = "checked" /\ DrawAndWrite(r, run[r].stick)
      BY <2>1 DEF Confirm, SInv, Shape
    <3> QED BY <3>1, WriteInv
  <2>2. CASE Sync(r)
    <3>1. run[r].stick \in Stick /\ run[r].pc = "sync"
      BY <2>2, Constants DEF Sync, SInv, Shape, Drawn
    <3>2. header' = header /\ port' = port /\ made' = made /\ home' = home /\ UNCHANGED history
      BY <2>2 DEF Sync
    <3> QED BY <2>2, <3>1, <3>2, FlushInv DEF Sync
  <2>3. CASE PickSlot(r) \/ AddKey(r) \/ Report(r) \/ KillSlot(r)
    <3>1. run[r].pc \in {"slot", "add", "report", "kill"}
      BY <2>3 DEF PickSlot, AddKey, Report, KillSlot
    <3> QED BY <2>3, <3>1, SlotInv
  <2>4. CASE Fail(r)
    BY <2>4, FailInv
  <2> QED BY <1>1, <2>1, <2>2, <2>3, <2>4 DEF RunStep
<1>2. ASSUME NEW r \in Run, NEW st \in Stick, CheckGpt(r, st) \/ AddBackup(r, st) PROVE SInv'
  BY <1>2, CheckGptInv, WriteInv DEF AddBackup
<1>3. ASSUME NEW r \in Run, NEW s \in Slot, BeginRevoke(r, s) PROVE SInv'
  BY <1>3, BeginRevokeInv
<1>4. ASSUME NEW st \in Stick, WriteBack(st) PROVE SInv'
  <2>1. cache[st] = View(st)
    BY <1>4 DEF WriteBack, View
  <2>2. media' = [media EXCEPT ![st] = View(st)] /\ cache' = [cache EXCEPT ![st] = None]
    BY <1>4, <2>1 DEF WriteBack
  <2>3. header' = header /\ port' = port /\ made' = made /\ home' = home /\ UNCHANGED history /\ UNCHANGED run
    BY <1>4 DEF WriteBack, runVars
  <2> QED BY <2>2, <2>3, FlushInv
<1> QED BY <1>1, <1>2, <1>3, <1>4, HandsInv DEF StickNext

LEMMA StickStutter ==
  ASSUME SInv, UNCHANGED stickVars PROVE SInv'
<1>1. header' = header /\ media' = media /\ cache' = cache /\ port' = port /\ run' = run /\ made' = made
      /\ home' = home /\ told' = told /\ written_over' = written_over /\ revoked' = revoked
  BY DEF stickVars, diskVars, runVars, history
<1> QED
  BY <1>1 DEF SInv, StickTypeOK, Shape, Drawn, Single, Held, Adding, Durable, InSlot, View, RevokedStaysOut

LEMMA StickSafety ==
  SInv => StickTypeOK /\ NoDeadSlot /\ ReportedStickOpens /\ RevokedStaysOut
BY DEF SInv, Held, Durable, InSlot, NoDeadSlot, ReportedStickOpens, RevokedStaysOut

----------------------------------------------------------------------------
(* The boot hook                                                             *)

(* What the hook knows while the device is closed: the sticks it has tried    *)
(* this turn do not open it, if they were in their ports since its glob, the  *)
(* device was there and no tool failed on them.                              *)
Knows ==
  /\ boot = "try" /\ key = None => \A st \in steady \ todo : ~Opens(st)
  /\ boot = "turn" /\ key = None => \A st \in steady : ~Opens(st)
  /\ ~disk => steady = {}

Opened == boot = "up" => key # None

BInv == TypeOK /\ SInv /\ Knows /\ Opened

LEMMA BInit == Init => BInv
<1> SUFFICES ASSUME Init PROVE BInv OBVIOUS
<1>1. SInv /\ StickTypeOK
  BY SInit DEF Init, SInv
<1>2. TypeOK
  BY <1>1, TimeoutAssumption DEF Init, TypeOK
<1> QED BY <1>1, <1>2, Constants DEF BInv, Init, Knows, Opened, Passphrase

LEMMA OpensSame ==
  ASSUME media' = media, header' = header, NEW st PROVE Opens(st)' <=> Opens(st)
BY DEF Opens

LEMMA HookInv ==
  ASSUME BInv, Hook \/ Fault \/ Prompt PROVE BInv'
<1> USE DEF BInv
<1>1. UNCHANGED stickVars
  BY DEF Hook, Glob, TryStick, Fault, ToolFails, NoneOpened, Wait, Fallback, Prompt
<1>2. /\ header' = header /\ media' = media /\ port' = port
      /\ port \subseteq Stick /\ media \in [Stick -> Contents] /\ StickTypeOK
  BY <1>1 DEF stickVars, diskVars, TypeOK, StickTypeOK
<1>3. SInv' /\ StickTypeOK'
  BY <1>1, StickStutter DEF SInv
<1>4. \A st \in Stick : Opens(st)' <=> Opens(st)
  BY <1>2, OpensSame
<1>5. timeout \in Timeouts /\ timeout \in Nat /\ elapsed \in 0 .. timeout
  BY TimeoutAssumption DEF TypeOK
<1>6. CASE Glob
  <2>1. TypeOK'
    BY <1>2, <1>3, <1>5, <1>6 DEF Glob, Return, TypeOK
  <2>2. Knows'
    BY <1>6 DEF Glob, Return, Knows
  <2> QED BY <1>3, <1>6, <2>1, <2>2 DEF Glob, Opened
<1>7. ASSUME NEW st \in Stick, TryStick(st) PROVE BInv'
  <2>1. CASE CanOpen(st)
    <3>1. media[st] \in Key \cup {Passphrase, None} /\ media[st] # None
      BY <1>2, <2>1, Constants DEF CanOpen, Opens, StickTypeOK, Contents
    <3>2. TypeOK'
      BY <1>2, <1>3, <1>5, <1>7, <2>1, <3>1 DEF TryStick, Return, TypeOK
    <3> QED BY <1>3, <1>7, <2>1, <3>1, <3>2 DEF TryStick, Return, Knows, Opened
  <2>2. CASE ~CanOpen(st)
    <3>1. /\ boot = "try" /\ boot' = "try" /\ todo' = todo \ {st} /\ steady' = steady /\ steady \subseteq port
          /\ key' = key /\ timeout' = timeout /\ elapsed' = elapsed /\ disk' = disk
      BY <1>7, <2>2 DEF TryStick, TypeOK
    <3>2. TypeOK'
      BY <1>2, <1>3, <3>1 DEF TypeOK
    <3>3. key = None /\ st \in steady => ~Opens(st)
      BY <2>2, <3>1 DEF CanOpen, Knows
    <3>4. Knows'
      BY <1>2, <1>4, <3>1, <3>3 DEF Knows
    <3> QED BY <1>3, <3>1, <3>2, <3>4 DEF Opened
  <2> QED BY <2>1, <2>2
<1>8. ASSUME NEW st \in Stick, ToolFails(st) PROVE BInv'
  <2>1. media[st] \in Key \cup {Passphrase, None} /\ media[st] # None
    BY <1>2, <1>8, Constants DEF ToolFails, CanOpen, Opens, StickTypeOK, Contents
  <2>2. TypeOK'
    BY <1>2, <1>3, <1>8, <2>1 DEF ToolFails, TypeOK
  <2>3. /\ boot' = "try" /\ boot = "try" /\ key = None /\ disk' = disk /\ disk
        /\ steady' \ todo' \subseteq steady \ todo /\ steady \subseteq Stick
    BY <1>2, <1>8 DEF ToolFails, CanOpen, TypeOK
  <2>4. Knows'
    BY <1>4, <2>3 DEF Knows
  <2> QED BY <1>3, <2>2, <2>3, <2>4 DEF Opened
<1>9. CASE NoneOpened
  <2>1. TypeOK'
    BY <1>2, <1>3, <1>9 DEF NoneOpened, TypeOK
  <2>2. Knows'
    BY <1>2, <1>4, <1>9 DEF NoneOpened, Knows, TypeOK
  <2> QED BY <1>3, <1>9, <2>1, <2>2 DEF NoneOpened, Opened
<1>10. CASE Wait
  <2>1. elapsed' \in 0 .. timeout
    BY <1>5, <1>10 DEF Wait, TimedOut
  <2>2. TypeOK'
    BY <1>2, <1>3, <1>10, <2>1 DEF Wait, TypeOK
  <2> QED BY <1>3, <1>10, <2>2 DEF Wait, Knows, Opened
<1>11. CASE Fallback \/ Prompt
  <2>1. TypeOK'
    BY <1>2, <1>3, <1>5, <1>11 DEF Fallback, Prompt, Return, TypeOK
  <2> QED BY <1>3, <1>11, <2>1, Constants DEF Fallback, Prompt, Return, Knows, Opened, Passphrase
<1> QED BY <1>6, <1>7, <1>8, <1>9, <1>10, <1>11 DEF Hook, Fault

LEMMA BNext == ASSUME BInv, [Next]_vars PROVE BInv'
<1> USE DEF BInv
<1>1. CASE Hook \/ Fault \/ Prompt
  BY <1>1, HookInv
<1>2. CASE Tool
  <2>1. SInv' /\ StickTypeOK'
    BY <1>2, StickStep DEF Tool, SInv
  <2>2. boot' = "up" /\ boot' = boot /\ todo' = todo /\ timeout' = timeout /\ elapsed' = elapsed
        /\ disk' = disk /\ key' = key /\ steady' = steady
    BY <1>2 DEF Tool, bootVars
  <2>3. port' = port
    BY <1>2 DEF Tool, StickNext, RunStep, Confirm, DrawAndWrite, Sync, PickSlot, AddKey, Report, KillSlot, Fail,
                CheckGpt, AddBackup, BeginRevoke, WriteBack, diskVars
  <2>4. TypeOK' /\ Knows' /\ Opened'
    BY <2>1, <2>2, <2>3 DEF TypeOK, Knows, Opened
  <2> QED BY <2>1, <2>4
<1>3. CASE Hands
  <2>1. SInv' /\ StickTypeOK'
    BY <1>3, StickStep DEF Hands, SInv
  <2>2. media' = media /\ header' = header
    BY <1>3 DEF Hands, HandsNext, Plug, Unplug
  <2>3. TypeOK'
    BY <1>3, <2>1 DEF Hands, TypeOK
  <2>4. Knows'
    BY <1>3, <2>2, OpensSame DEF Hands, Knows
  <2> QED BY <1>3, <2>1, <2>3, <2>4 DEF Hands, Opened
<1>4. CASE Off
  <2>1. SInv' /\ StickTypeOK'
    BY <1>4, StickStep DEF Off, SInv
  <2>2. TypeOK' /\ Knows' /\ Opened'
    BY <1>4, <2>1, TimeoutAssumption DEF Off, PowerOn, TypeOK, Knows, Opened
  <2> QED BY <2>1, <2>2
<1>5. CASE UNCHANGED vars
  <2>1. UNCHANGED stickVars /\ UNCHANGED bootVars
    BY <1>5 DEF vars
  <2>2. SInv' /\ StickTypeOK'
    BY <2>1, StickStutter DEF SInv
  <2>3. /\ header' = header /\ media' = media /\ port' = port /\ boot' = boot /\ todo' = todo /\ timeout' = timeout
        /\ elapsed' = elapsed /\ disk' = disk /\ key' = key /\ steady' = steady
    BY <2>1 DEF stickVars, diskVars, bootVars
  <2>4. TypeOK' /\ Knows' /\ Opened'
    BY <2>2, <2>3, OpensSame DEF TypeOK, Knows, Opened
  <2> QED BY <2>2, <2>4
<1>6. CASE DiskComesOrGoes
  <2>1. SInv' /\ StickTypeOK' /\ port' = port
    BY <1>6, StickStutter DEF DiskComesOrGoes, SInv, stickVars, diskVars
  <2>2. TypeOK' /\ Knows' /\ Opened'
    BY <1>6, <2>1 DEF DiskComesOrGoes, TypeOK, Knows, Opened
  <2> QED BY <2>1, <2>2
<1> QED BY <1>1, <1>2, <1>3, <1>4, <1>5, <1>6 DEF Next

LEMMA BAlways == Spec => []BInv
BY BInit, BNext, PTL DEF Spec

----------------------------------------------------------------------------
(* The theorems                                                              *)

(* The variables keep their types, for any sticks, slots, keys and timeouts.  *)
THEOREM StickTypeCorrect == Spec => []TypeOK
<1>1. BInv => TypeOK
  BY DEF BInv
<1> QED BY <1>1, BAlways, PTL

(* No key slot is dead from the start: backup.rs:26-29 writes the stick and   *)
(* syncs it before luksAddKey, so that every key in the header is durably on  *)
(* its stick until a later run writes over it.                               *)
THEOREM SlotsNeverDead == Spec => []NoDeadSlot
<1>1. BInv => NoDeadSlot
  BY StickSafety DEF BInv
<1> QED BY <1>1, BAlways, PTL

(* A setup or backup that reported success left a stick that opens the disk,  *)
(* until it is revoked or written over (create.rs:128, backup.rs:43).        *)
THEOREM ReportedSticksOpen == Spec => []ReportedStickOpens
<1>1. BInv => ReportedStickOpens
  BY StickSafety DEF BInv
<1> QED BY <1>1, BAlways, PTL

(* A key whose slot a revoke was reported to have removed is never in the     *)
(* header again (revoke.rs:18).                                              *)
THEOREM RevokedKeysStayOut == Spec => []RevokedStaysOut
<1>1. BInv => RevokedStaysOut
  BY StickSafety DEF BInv
<1> QED BY <1>1, BAlways, PTL

(* The hook falls back to the passphrase only after krypt_timeout turns, and, *)
(* unless a tool that failed left the device open, past no stick that opens   *)
(* it: none that was plugged in through the last turn, with the LUKS device   *)
(* there (hooks/krypt:100) and dd and cryptsetup doing their work (:75, :111).*)
THEOREM HookGivesUpRightly == Spec => GivesUpRightly
<1> DEFINE A == boot' = "prompt" /\ boot # "prompt" =>
                  /\ timeout > 0 /\ elapsed >= timeout
                  /\ key = None => \A st \in steady : ~Opens(st)
<1>1. ASSUME BInv, [Next]_vars PROVE [A]_vars
  <2> SUFFICES ASSUME Next, boot' = "prompt", boot # "prompt"
               PROVE  timeout > 0 /\ elapsed >= timeout /\ (key = None => \A st \in steady : ~Opens(st))
    BY <1>1
  <2>1. Fallback
    BY DEF Next, Hook, Glob, TryStick, NoneOpened, Wait, Fault, ToolFails, Prompt, Tool, bootVars, Hands,
           DiskComesOrGoes, Off, PowerOn
  <2> QED BY <1>1, <2>1 DEF Fallback, TimedOut, BInv, Knows
<1> QED BY <1>1, BAlways, PTL DEF Spec, GivesUpRightly

----------------------------------------------------------------------------
(* BootHook implements KeyLedger                                             *)

Lives  == [k \in Key |-> Life(k)]
Copies == [k \in Key |-> CopyOf(k)]

(* A key that was not drawn yet is nowhere.                                  *)
LEMMA NotDrawnYet ==
  ASSUME SInv, NEW k \in Key, k \notin Made
  PROVE  ~InSlot(k) /\ k \notin revoked /\ k \notin written_over /\ ~Carried(k)
<1>1. k \notin 1 .. made /\ k \notin 0 .. made /\ k # None
  BY Constants DEF SInv, StickTypeOK, Made
<1>2. ~InSlot(k) /\ k \notin revoked /\ k \notin written_over
  BY <1>1 DEF SInv, Drawn, InSlot
<1>3. ASSUME NEW r \in Run PROVE run[r].key # k
  <2>1. run[r].pc \in Pcs
    BY DEF SInv, StickTypeOK
  <2> QED BY <1>1, <2>1 DEF SInv, Shape, Pcs
<1> QED BY <1>2, <1>3 DEF Carried

(* The lives change only where header, revokes or the runs do.               *)
LEMMA SameLife ==
  ASSUME NEW k \in Key, Made' = Made, InSlot(k)' <=> InSlot(k),
         k \in revoked' <=> k \in revoked,
         InSlot(k) \/ k \in revoked \/ (Carried(k)' <=> Carried(k))
  PROVE  Life(k)' = Life(k)
BY DEF Life

LEMMA SameCopies ==
  ASSUME UNCHANGED <<media, made, home, written_over>>
  PROVE  Copies' = Copies
BY DEF Copies, CopyOf, Made

(* A run that draws a key writes over others.                                *)
LEMMA WriteLedger ==
  ASSUME SInv, NEW r \in Run, NEW st \in Stick, DrawAndWrite(r, st),
         run[r].pc \in {"idle", "checked"}, Ledger!Open, key' = key
  PROVE  \E k \in Key : Ledger!Draw(k)
<1> USE Constants
<1>1. PICK k \in Key : k = made + 1
  BY DEF DrawAndWrite, SInv, StickTypeOK, Key
<1>2. /\ k \notin Made /\ Made' = Made \cup {k} /\ Made \subseteq Key
      /\ header' = header /\ told' = told /\ revoked' = revoked /\ media' = media
  BY <1>1 DEF DrawAndWrite, SInv, StickTypeOK, Key, Made
<1>3. run'[r].key = k /\ \A q \in Run \ {r} : run'[q] = run[q]
  BY <1>1 DEF DrawAndWrite, Record, SInv, StickTypeOK
<1>4. run[r].key = None
  BY DEF SInv, Shape
<1>5. \A j \in Key : /\ InSlot(j)' <=> InSlot(j)
                     /\ j # k => (Carried(j)' <=> Carried(j))
  BY <1>2, <1>3, <1>4 DEF InSlot, Carried
<1>6. ~InSlot(k) /\ k \notin revoked /\ k \notin written_over
  BY <1>2, NotDrawnYet
<1>7. Carried(k)'
  BY <1>3 DEF Carried
<1>8. k \in Made' /\ ~InSlot(k)' /\ k \notin revoked'
  BY <1>2, <1>5, <1>6
<1>9. Life(k) = "new" /\ Life(k)' = "drawn"
  BY <1>2, <1>7, <1>8 DEF Life
<1>10. ASSUME NEW j \in Key, j # k PROVE Life(j)' = Life(j)
  BY <1>2, <1>5, <1>10 DEF Life
<1>11. Lives' = [Lives EXCEPT ![k] = "drawn"] /\ Lives[k] = "new"
  BY <1>9, <1>10 DEF Lives
<1>12. /\ written_over \subseteq written_over' /\ written_over' \subseteq Made
       /\ \A j \in Made : home'[j] = home[j]
       /\ home'[k] = st
  <2>1. (View(st) \in Key => View(st) \in Made) /\ (media[st] \in Key => media[st] \in Made)
    BY DEF SInv, Drawn, View, Made
  <2>2. written_over' = written_over \cup (({View(st)} \cup {media[st]}) \cap Key) /\ written_over \subseteq Made
    BY DEF DrawAndWrite, SInv, Drawn, Made
  <2>3. written_over \subseteq written_over' /\ written_over' \subseteq Made
    BY ONLY <2>1, <2>2
  <2>4. home' = [home EXCEPT ![k] = st] /\ home \in [Key -> Stick \cup {None}]
    BY <1>1 DEF DrawAndWrite, SInv, StickTypeOK
  <2> QED BY <1>2, <2>3, <2>4
<1>13. written_over' \in SUBSET {j \in Key : Lives[j] # "new"}
  <2> SUFFICES ASSUME NEW j \in Made PROVE j \in Key /\ Lives[j] # "new"
    BY <1>12
  <2> QED BY <1>2 DEF Lives, Life
<1>14. ASSUME NEW j \in Key PROVE CopyOf(j)' = IF j \in written_over' THEN "over" ELSE CopyOf(j)
  <2>1. CASE j \in written_over'
    BY <2>1 DEF CopyOf
  <2>2. CASE j \notin written_over' /\ j \in Made
    BY <1>2, <1>12, <2>2 DEF CopyOf
  <2>3. CASE j \notin written_over' /\ j \notin Made
    <3>1. media[st] # k
      BY <1>2 DEF SInv, Drawn, Made
    <3> QED BY <1>2, <1>12, <2>3, <3>1 DEF CopyOf
  <2> QED BY <2>1, <2>2, <2>3
<1>15. Copies' = [j \in Key |-> IF j \in written_over' THEN "over" ELSE Copies[j]]
  BY <1>14 DEF Copies
<1>16. \E W \in SUBSET {j \in Key : Lives[j] # "new"} :
         Copies' = [j \in Key |-> IF j \in W THEN "over" ELSE Copies[j]]
  BY <1>13, <1>15
<1>17. Ledger!Draw(k)
  BY <1>2, <1>11, <1>16 DEF Ledger!Draw, Lives, Copies, Ledger!Open
<1> QED BY <1>17

(* fsync and write-back make at most one more key safe.                      *)
LEMMA FlushLedger ==
  ASSUME SInv, NEW st \in Stick, media' = [media EXCEPT ![st] = View(st)],
         UNCHANGED <<header, made, home, history>>,
         \A q \in Run : run'[q].key = run[q].key, Ledger!Open, key' = key
  PROVE  [Ledger!Next]_(Ledger!vars)
<1> USE Constants
<1>1. PICK v : v = View(st)
  OBVIOUS
<1>2. /\ Made' = Made /\ UNCHANGED <<header, home, told, written_over, revoked>>
      /\ \A tt \in Stick : media'[tt] = IF tt = st THEN v ELSE media[tt]
  BY <1>1 DEF SInv, StickTypeOK, history, Made
<1>3. Lives' = Lives
  <2>1. ASSUME NEW k \in Key PROVE Life(k)' = Life(k)
    <3>1. (InSlot(k)' <=> InSlot(k)) /\ (Carried(k)' <=> Carried(k))
      BY <1>2 DEF InSlot, Carried
    <3> QED BY <1>2, <3>1, SameLife
  <2> QED BY <2>1 DEF Lives
<1>4. ASSUME NEW k \in Key, k # v PROVE CopyOf(k)' = CopyOf(k)
  <2>1. CASE k \in written_over \/ k \notin Made
    BY <1>2, <2>1 DEF CopyOf
  <2>2. CASE k \notin written_over /\ k \in Made
    <3>1. home[k] \in Stick
      BY <2>2 DEF SInv, Drawn, Made
    <3>2. home[k] = st => media[st] # k
      BY <1>1, <1>4, <2>2 DEF SInv, Held, View
    <3> QED BY <1>2, <1>4, <2>2, <3>1, <3>2 DEF CopyOf
  <2> QED BY <2>1, <2>2
<1>5. CASE Copies' = Copies
  BY <1>2, <1>3, <1>5 DEF Ledger!vars, Lives, Copies
<1>6. CASE Copies' # Copies
  <2>1. v \in Key /\ CopyOf(v)' # CopyOf(v)
    BY <1>4, <1>6 DEF Copies
  <2>2. v \in Made /\ home[v] = st
    BY <1>1, <2>1 DEF SInv, Drawn, View, Made
  <2>3. media'[home'[v]] = v
    BY <1>2, <2>2
  <2>4. CopyOf(v) = "none" /\ CopyOf(v)' = "safe"
    BY <1>2, <2>1, <2>2, <2>3 DEF CopyOf
  <2>5. Copies' = [Copies EXCEPT ![v] = "safe"] /\ Copies[v] = "none"
    BY <1>4, <2>1, <2>4 DEF Copies
  <2>6. Lives[v] # "new"
    BY <2>1, <2>2 DEF Lives, Life
  <2>7. Ledger!Store(v)
    BY <1>2, <1>3, <2>5, <2>6 DEF Ledger!Store, Ledger!Open, Lives, Copies
  <2> QED BY <2>1, <2>7 DEF Ledger!Next
<1> QED BY <1>5, <1>6

(* Where nothing is written, keys are only lost with the runs that end.       *)
LEMMA LostLedger ==
  ASSUME SInv, UNCHANGED <<header, media, made, home, history>>,
         \A q \in Run : run'[q].key \in {run[q].key, None}
  PROVE  /\ \E K \in SUBSET {k \in Key : Lives[k] = "drawn"} :
              /\ Lives' = [k \in Key |-> IF k \in K THEN "void" ELSE Lives[k]]
              /\ (\A q \in Run : run'[q].key = None) => K = {k \in Key : Lives[k] = "drawn"}
         /\ Copies' = Copies /\ UNCHANGED <<told, written_over, revoked>>
<1> USE Constants
<1>1. Made' = Made /\ UNCHANGED <<header, media, made, home, told, written_over, revoked>>
  BY DEF Made, history
<1>2. Copies' = Copies
  BY <1>1, SameCopies
<1> DEFINE K == {k \in Key : Life(k) = "drawn" /\ ~Carried(k)'}
<1>3. ASSUME NEW k \in Key PROVE Life(k)' = IF k \in K THEN "void" ELSE Life(k)
  <2>1. InSlot(k)' <=> InSlot(k)
    BY <1>1 DEF InSlot
  <2>2. Carried(k)' => Carried(k)
    BY DEF Carried
  <2> QED BY <1>1, <2>1, <2>2 DEF Life
<1>4. Lives' = [k \in Key |-> IF k \in K THEN "void" ELSE Lives[k]]
  BY <1>3 DEF Lives
<1>5. (\A q \in Run : run'[q].key = None) => \A k \in Key : ~Carried(k)'
  BY DEF Carried
<1>6. K \in SUBSET {k \in Key : Lives[k] = "drawn"}
  BY DEF Lives
<1>7. (\A q \in Run : run'[q].key = None) => K = {k \in Key : Lives[k] = "drawn"}
  BY <1>5 DEF Lives
<1> HIDE DEF K
<1> QED BY <1>1, <1>2, <1>4, <1>6, <1>7

LEMMA QuietLedger ==
  ASSUME SInv, UNCHANGED <<header, media, made, home, history>>, key' = key,
         \A q \in Run : run'[q].key \in {run[q].key, None}
  PROVE  Ledger!Next
<1>1. Ledger!Void
  BY LostLedger DEF Ledger!Void, Ledger!Lost, Lives, Copies
<1> QED BY <1>1 DEF Ledger!Next

(* cryptsetup adds a key to a slot or removes one, and a run reports.         *)
LEMMA AddLedger ==
  ASSUME SInv, NEW r \in Run, AddKey(r), Ledger!Open, key' = key
  PROVE  \E k \in Key : Ledger!Enroll(k)
<1> USE Constants DEF SInv
<1>1. PICK k : k = run[r].key
  OBVIOUS
<1>2. /\ run[r].pc = "add" /\ run[r].slot \in Slot /\ header[run[r].slot] = None
      /\ k \in Made /\ k \in Key
      /\ k \notin revoked /\ \A s \in Slot : header[s] # k
  BY <1>1 DEF AddKey, Shape, Single, Adding, Made, StickTypeOK, Key
<1>3. Durable(k)
  BY <1>1, <1>2 DEF Held
<1>4. /\ UNCHANGED <<media, made, home, told, written_over, revoked>> /\ Made' = Made
      /\ \A q \in Run : run'[q].key = run[q].key
  BY DEF AddKey, diskVars, history, Goto, StickTypeOK, Made
<1>5. \A s \in Slot : header'[s] = IF s = run[r].slot THEN k ELSE header[s]
  BY <1>1, <1>2 DEF AddKey, StickTypeOK
<1>6. InSlot(k)' /\ ~InSlot(k) /\ \A j \in Key : j # k => (InSlot(j)' <=> InSlot(j))
  BY <1>2, <1>5 DEF InSlot
<1>7. Carried(k) /\ \A j \in Key : Carried(j)' <=> Carried(j)
  BY <1>1, <1>4 DEF Carried
<1>8. Life(k) = "drawn" /\ Life(k)' = "enrolled"
  BY <1>2, <1>4, <1>6, <1>7 DEF Life
<1>9. \A j \in Key : j # k => Life(j)' = Life(j)
  BY <1>4, <1>6, <1>7, SameLife
<1>10. Lives' = [Lives EXCEPT ![k] = "enrolled"] /\ Lives[k] = "drawn"
  BY <1>2, <1>8, <1>9 DEF Lives
<1>11. Copies' = Copies /\ Copies[k] # "none"
  BY <1>2, <1>3, <1>4, SameCopies DEF Copies, CopyOf, Durable
<1> QED BY <1>2, <1>4, <1>10, <1>11 DEF Ledger!Enroll, Ledger!Open, Lives, Copies

LEMMA ReportLedger ==
  ASSUME SInv, NEW r \in Run, Report(r), Ledger!Open, key' = key
  PROVE  \E k \in Key : Ledger!Tell(k)
<1> USE Constants DEF SInv
<1>1. PICK k : k = run[r].key
  OBVIOUS
<1>2. run[r].pc = "report" /\ k \in Made /\ k \in Key
  BY <1>1 DEF Report, Shape, Made, StickTypeOK, Key
<1>3. InSlot(k) \/ k \in revoked
  BY <1>1, <1>2 DEF Held
<1>4. /\ UNCHANGED <<header, media, made, home, written_over, revoked>> /\ Made' = Made
      /\ told' = told \cup {k}
      /\ \A q \in Run \ {r} : run'[q] = run[q]
      /\ run'[r].key = None
  BY <1>1 DEF Report, diskVars, StickTypeOK, Made, Idle, Record
<1>5. \A j \in Key : InSlot(j)' <=> InSlot(j)
  BY <1>4 DEF InSlot
<1>6. \A j \in Key : j # k => (Carried(j)' <=> Carried(j))
  BY <1>1, <1>4 DEF Carried
<1>7. \A j \in Key : Life(j)' = Life(j)
  BY <1>3, <1>4, <1>5, <1>6, SameLife
<1>8. Lives' = Lives /\ Lives[k] \in {"enrolled", "revoked"}
  BY <1>2, <1>3, <1>7 DEF Lives, Life
<1>9. Copies' = Copies
  BY <1>4, SameCopies
<1> QED BY <1>2, <1>4, <1>8, <1>9 DEF Ledger!Tell, Ledger!Open, Lives, Copies

LEMMA KillLedger ==
  ASSUME SInv, NEW r \in Run, KillSlot(r), Ledger!Open, key' = key
  PROVE  Ledger!Next
<1> USE Constants DEF SInv
<1>1. PICK g : g = header[run[r].slot]
  OBVIOUS
<1>2. /\ run[r].pc = "kill" /\ run[r].slot \in Slot /\ run[r].key = None
      /\ g # None /\ g \in Key \cup {Passphrase} /\ g \notin revoked
      /\ \A s \in Slot : header[s] = g => s = run[r].slot
  <2>1. run[r].pc = "kill" /\ g # None
    BY <1>1 DEF KillSlot
  <2>2. run[r].slot \in Slot /\ run[r].key = None
    BY <2>1 DEF Shape
  <2>3. g \in Key \cup {Passphrase}
    BY <1>1, <2>1, <2>2 DEF StickTypeOK
  <2>4. g \notin revoked
    BY <1>1, <2>2 DEF Held, RevokedStaysOut
  <2>5. \A s \in Slot : header[s] = g => s = run[r].slot
    BY <1>1, <2>1, <2>2 DEF Single
  <2> QED BY <2>1, <2>2, <2>3, <2>4, <2>5
<1>3. /\ UNCHANGED <<media, made, home, told, written_over>> /\ Made' = Made
      /\ revoked' = revoked \cup {g}
      /\ \A q \in Run : run'[q].key = run[q].key
      /\ \A s \in Slot : header'[s] = IF s = run[r].slot THEN None ELSE header[s]
  BY <1>1, <1>2 DEF KillSlot, diskVars, StickTypeOK, Made, Idle, Record
<1>4. \A j \in Key : /\ j # g => (InSlot(j)' <=> InSlot(j))
                     /\ Carried(j)' <=> Carried(j)
  BY <1>1, <1>3 DEF InSlot, Carried
<1>5. InSlot(g) /\ ~InSlot(g)'
  BY <1>1, <1>2, <1>3 DEF InSlot
<1>6. \A j \in Key : j # g => Life(j)' = Life(j)
  BY <1>3, <1>4, SameLife
<1>7. Copies' = Copies
  BY <1>3, SameCopies
<1>8. CASE g \in Key
  <2>1. g \in Made
    BY <1>1, <1>2, <1>8 DEF Drawn, Made
  <2>2. Life(g) = "enrolled" /\ Life(g)' = "revoked"
    BY <1>3, <1>5, <2>1 DEF Life
  <2>3. Lives' = [Lives EXCEPT ![g] = "revoked"] /\ Lives[g] = "enrolled"
    BY <1>6, <1>8, <2>2 DEF Lives
  <2>4. Passphrase \notin revoked' <=> Passphrase \notin revoked
    BY <1>3, <1>8 DEF Passphrase
  <2>5. Ledger!Revoke(g)
    BY <1>3, <1>7, <2>3, <2>4 DEF Ledger!Revoke, Ledger!Open, Lives, Copies
  <2> QED BY <1>8, <2>5 DEF Ledger!Next
<1>9. CASE g = Passphrase
  <2>1. Lives' = Lives
    BY <1>6, <1>9 DEF Lives, Passphrase
  <2>2. Ledger!RevokePassphrase
    BY <1>2, <1>3, <1>7, <1>9, <2>1 DEF Ledger!RevokePassphrase, Ledger!Open, Lives, Copies
  <2> QED BY <2>2 DEF Ledger!Next
<1> QED BY <1>2, <1>8, <1>9

(* Every step of a tool is one of the ledger.                                *)
LEMMA ToolLedger ==
  ASSUME BInv, Tool PROVE [Ledger!Next]_(Ledger!vars)
<1>1. SInv /\ Ledger!Open /\ key' = key
  BY DEF BInv, Opened, Tool, bootVars, Ledger!Open
<1>2. ASSUME NEW r \in Run, RunStep(r) PROVE [Ledger!Next]_(Ledger!vars)
  <2>1. CASE Confirm(r)
    <3>1. run[r].stick \in Stick /\ run[r].pc = "checked" /\ DrawAndWrite(r, run[r].stick)
      BY <1>1, <2>1 DEF Confirm, SInv, Shape
    <3> QED BY <1>1, <3>1, WriteLedger DEF Ledger!Next
  <2>2. CASE Sync(r)
    <3>1. run[r].stick \in Stick
      BY <1>1, <2>2, Constants DEF Sync, SInv, Shape, Drawn
    <3>2. \A q \in Run : run'[q].key = run[q].key
      BY <1>1, <2>2 DEF Sync, Goto, SInv, StickTypeOK
    <3>3. media' = [media EXCEPT ![run[r].stick] = View(run[r].stick)]
          /\ UNCHANGED <<header, made, home, history>>
      BY <2>2 DEF Sync
    <3> QED BY <1>1, <3>1, <3>2, <3>3, FlushLedger
  <2>3. CASE PickSlot(r) \/ Fail(r)
    <3>1. UNCHANGED <<header, media, made, home, history>>
      BY <2>3 DEF PickSlot, Fail, diskVars
    <3>2. \A q \in Run : run'[q].key \in {run[q].key, None}
      BY <1>1, <2>3 DEF PickSlot, Fail, Idle, Record, SInv, StickTypeOK
    <3> QED BY <1>1, <3>1, <3>2, QuietLedger
  <2>4. CASE AddKey(r) \/ Report(r) \/ KillSlot(r)
    BY <1>1, <2>4, AddLedger, ReportLedger, KillLedger DEF Ledger!Next
  <2> QED BY <1>2, <2>1, <2>2, <2>3, <2>4 DEF RunStep
<1>3. ASSUME NEW r \in Run, NEW st \in Stick, CheckGpt(r, st) PROVE Ledger!Next
  <2>1. UNCHANGED <<header, media, made, home, history>>
    BY <1>3 DEF CheckGpt, diskVars
  <2>2. \A q \in Run : run'[q].key \in {run[q].key, None}
    BY <1>1, <1>3 DEF CheckGpt, Record, SInv, StickTypeOK
  <2> QED BY <1>1, <2>1, <2>2, QuietLedger
<1>4. ASSUME NEW r \in Run, NEW st \in Stick, AddBackup(r, st) PROVE Ledger!Next
  BY <1>1, <1>4, WriteLedger DEF AddBackup, Ledger!Next
<1>5. ASSUME NEW r \in Run, NEW s \in Slot, BeginRevoke(r, s) PROVE Ledger!Next
  <2>1. UNCHANGED <<header, media, made, home, history>>
    BY <1>5 DEF BeginRevoke, diskVars
  <2>2. \A q \in Run : run'[q].key \in {run[q].key, None}
    BY <1>1, <1>5 DEF BeginRevoke, Record, SInv, StickTypeOK
  <2> QED BY <1>1, <2>1, <2>2, QuietLedger
<1>6. ASSUME NEW st \in Stick, WriteBack(st) PROVE [Ledger!Next]_(Ledger!vars)
  <2>1. media' = [media EXCEPT ![st] = View(st)]
    BY <1>6 DEF WriteBack, View
  <2>2. UNCHANGED <<header, made, home, history>> /\ \A q \in Run : run'[q].key = run[q].key
    BY <1>6 DEF WriteBack, runVars
  <2> QED BY <1>1, <2>1, <2>2, FlushLedger
<1> QED BY <1>2, <1>3, <1>4, <1>5, <1>6 DEF Tool, StickNext

(* The hook opens the disk with an enrolled key only, or it changes nothing.  *)
LEMMA HookLedger ==
  ASSUME BInv, Hook \/ Fault \/ Prompt PROVE [Ledger!Next]_(Ledger!vars)
<1> USE Constants
<1>1. SInv
  BY DEF BInv
<1>2. UNCHANGED <<header, media, made, home, run, told, written_over, revoked>>
  BY DEF Hook, Glob, TryStick, NoneOpened, Wait, Fallback, Fault, ToolFails, Prompt, stickVars, diskVars, runVars,
         history
<1>3. Copies' = Copies
  BY <1>2, SameCopies
<1>4. Lives' = Lives
  <2>1. ASSUME NEW k \in Key PROVE Life(k)' = Life(k)
    BY <1>2 DEF Life, Made, InSlot, Carried
  <2> QED BY <2>1 DEF Lives
<1>5. CASE key' = key
  BY <1>2, <1>3, <1>4, <1>5 DEF Ledger!vars, Lives, Copies
<1>6. CASE Prompt
  <2>1. ~Ledger!Open /\ key' = Passphrase
    BY <1>6 DEF Prompt, Ledger!Open
  <2>2. Passphrase \notin revoked
    BY <1>1, <1>6 DEF Prompt, SInv, Held, RevokedStaysOut
  <2>3. Ledger!Unlock
    BY <1>2, <1>3, <1>4, <2>1, <2>2 DEF Ledger!Unlock, Ledger!Open, Lives, Copies
  <2> QED BY <2>3 DEF Ledger!Next
<1>7. ASSUME NEW st \in Stick, TryStick(st) \/ ToolFails(st), key' # key PROVE Ledger!Next
  <2>1. key = None /\ Opens(st) /\ key' = media[st]
    BY <1>7 DEF TryStick, ToolFails, CanOpen
  <2>2. ~Ledger!Open
    BY <2>1 DEF Ledger!Open
  <2>3. PICK k : k = media[st]
    OBVIOUS
  <2>4. PICK s \in Slot : header[s] = k
    BY <2>1, <2>3 DEF Opens
  <2>5. k \in Key
    <3>1. k \in Contents /\ header[s] \in Key \cup {Passphrase, None}
      BY <1>1, <2>3 DEF SInv, StickTypeOK
    <3>2. None \notin Contents /\ Passphrase \notin Contents
      BY FreshAssumption DEF Contents, Passphrase
    <3> QED BY <2>4, <3>1, <3>2
  <2>6. k \in Made /\ home[k] = st
    BY <1>1, <2>3, <2>5 DEF SInv, Drawn, Made
  <2>7. Lives[k] = "enrolled"
    BY <2>4, <2>5, <2>6 DEF Lives, Life, InSlot
  <2>8. Copies[k] # "none"
    BY <2>3, <2>5, <2>6 DEF Copies, CopyOf
  <2>9. Ledger!Unlock
    BY <1>2, <1>3, <1>4, <2>1, <2>2, <2>3, <2>5, <2>7, <2>8 DEF Ledger!Unlock, Ledger!Open, Lives, Copies
  <2> QED BY <2>9 DEF Ledger!Next
<1>8. CASE Glob \/ NoneOpened \/ Wait \/ Fallback
  BY <1>5, <1>8 DEF Glob, NoneOpened, Wait, Fallback
<1> QED BY <1>5, <1>6, <1>7, <1>8 DEF Hook, Fault

LEMMA LedgerInit == Init => Ledger!Init
<1> SUFFICES ASSUME Init PROVE Ledger!Init
  OBVIOUS
<1> USE Constants
<1>1. made = 0 /\ told = {} /\ written_over = {} /\ revoked = {} /\ key = Passphrase
  BY DEF Init, StickInit
<1>2. Made = {}
  BY <1>1 DEF Made
<1>3. \A k \in Key : Life(k) = "new" /\ CopyOf(k) = "none"
  BY <1>1, <1>2 DEF Life, CopyOf
<1> QED BY <1>1, <1>3 DEF Ledger!Init

LEMMA LedgerStep ==
  ASSUME BInv, [Next]_vars PROVE [Ledger!Next]_(Ledger!vars)
<1> USE Constants
<1>1. CASE Hook \/ Fault \/ Prompt
  BY <1>1, HookLedger
<1>2. CASE Tool
  BY <1>2, ToolLedger
<1>3. CASE Hands
  <2>1. UNCHANGED <<header, media, made, home, history>> /\ key' = key
    BY <1>3 DEF Hands, HandsNext, Plug, Unplug, runVars
  <2>2. \A q \in Run : run'[q].key \in {run[q].key, None}
    BY <1>3 DEF Hands, HandsNext, Plug, Unplug, runVars, Idle, Record
  <2> QED BY <2>1, <2>2, QuietLedger DEF BInv
<1>4. CASE Off
  <2>1. UNCHANGED <<header, media, made, home, history>> /\ key' = None
    BY <1>4 DEF Off, PowerLoss, PowerOn
  <2>2. \A q \in Run : run'[q].key = None
    BY <1>4 DEF Off, PowerLoss, Idle, Record
  <2>3. Ledger!PowerOff
    BY <2>1, <2>2, LostLedger DEF BInv, Ledger!PowerOff, Ledger!Lost, Lives, Copies
  <2> QED BY <2>3 DEF Ledger!Next
<1>5. CASE UNCHANGED vars
  <2>1. UNCHANGED <<header, media, made, home, run, told, written_over, revoked, key>>
    BY <1>5 DEF vars, stickVars, diskVars, runVars, history, bootVars
  <2>2. \A k \in Key : Life(k)' = Life(k)
    BY <2>1 DEF Life, Made, InSlot, Carried
  <2>3. Copies' = Copies /\ Lives' = Lives
    BY <2>1, <2>2, SameCopies DEF Lives
  <2> QED BY <2>1, <2>3 DEF Ledger!vars, Lives, Copies
<1>6. CASE DiskComesOrGoes
  <2>1. UNCHANGED <<header, media, made, home, run, told, written_over, revoked, key>>
    BY <1>6 DEF DiskComesOrGoes, stickVars, diskVars, runVars, history
  <2>2. \A k \in Key : Life(k)' = Life(k)
    BY <2>1 DEF Life, Made, InSlot, Carried
  <2>3. Copies' = Copies /\ Lives' = Lives
    BY <2>1, <2>2, SameCopies DEF Lives
  <2> QED BY <2>1, <2>3 DEF Ledger!vars, Lives, Copies
<1> QED BY <1>1, <1>2, <1>3, <1>4, <1>5, <1>6 DEF Next

(* Tools, header, sticks and hook implement the ledger of keys, for every     *)
(* number of sticks, runs, slots and keys: a key enters the header once, from *)
(* a run that made it safe on its stick, and never after that run ended, and  *)
(* only an enrolled key opens the disk (KeyLedger.tla).                      *)
THEOREM KeysLiveTheirLife == Spec => KeysLiveOnce
<1>1. Init => Ledger!Init
  BY LedgerInit
<1>2. BInv /\ [Next]_vars => [Ledger!Next]_(Ledger!vars)
  BY LedgerStep
<1> QED BY <1>1, <1>2, BAlways, PTL DEF Spec, KeysLiveOnce, Ledger!Spec
=============================================================================
