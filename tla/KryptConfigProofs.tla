------------------------- MODULE KryptConfigProofs -------------------------
(* Theorems about KryptConfig.                                               *)
EXTENDS KryptConfig, WellFoundedInduction, TLAPS

----------------------------------------------------------------------------
(* What the loops of validate have found so far: the first n entries of each *)
(* list are acceptable, each given the ones before it.                       *)

VmsGood(c, n) ==
  \A k \in 1 .. n :
    /\ c.vms[k].name \in GoodName
    /\ {c.vms[k].kernel, c.vms[k].ramdisk, c.vms[k].root_disk} \subseteq {"none", "clean"}
    /\ \A l \in 1 .. (k - 1) : c.vms[l].name # c.vms[k].name

SticksGood(c, n) ==
  \A k \in 1 .. n :
    /\ c.auth_sticks[k].serial \in GoodSerial
    /\ \A l \in 1 .. (k - 1) : c.auth_sticks[l].serial # c.auth_sticks[k].serial

RulesGood(c, n) ==
  \A k \in 1 .. n : {c.policy[k].source, c.policy[k].target} \subseteq GoodName \cap VmNames(c)

Loops ==
  /\ pc \in {"vms", "sticks", "rules"} => cfg \in Files
  /\ pc = "vms" => /\ VmsGood(cfg, i - 1)
                   /\ seen = {cfg.vms[k].name : k \in 1 .. (i - 1)}
  /\ pc \in {"sticks", "rules"} => VmsWellFormed(cfg)
  /\ pc = "sticks" => /\ SticksGood(cfg, i - 1)
                      /\ seen = {cfg.auth_sticks[k].serial : k \in 1 .. (i - 1)}
  /\ pc = "rules" => SticksWellFormed(cfg) /\ RulesGood(cfg, i - 1) /\ seen = VmNames(cfg)
  /\ pc \in {"load", "serving"} => WellFormed(cfg)

(* Nothing writes the tables once they are loaded, and an answer is that of  *)
(* the tables.                                                               *)
Loaded ==
  /\ pc = "serving" =>
       /\ trust = [n \in VmNames(cfg) |-> LastVm(cfg, n).trust]
       /\ rules = cfg.policy
       /\ table = [n \in VmNames(cfg) |-> LastVm(cfg, n)]
       /\ known = [s \in Serials(cfg) |-> LastStick(cfg, s).luks_slot]
  /\ answer # NoAnswer =>
       /\ pc = "serving"
       /\ answer \in Answers
       /\ answer.decision = Decision(answer.src, answer.dst)

IInv == TypeOK /\ Loops /\ Loaded

----------------------------------------------------------------------------
(* Lemmas about the operators                                                *)

LEMMA ConfigType ==
  ASSUME NEW c \in Files \cup {EmptyConfig}
  PROVE  c \in KryptConfigs
<1>1. <<>> \in Seq(VmEntry) /\ <<>> \in Seq(StickEntry) /\ <<>> \in Seq(RuleEntry)
  OBVIOUS
<1>2. EmptyConfig \in KryptConfigs
  BY <1>1, Zenon DEF EmptyConfig, KryptConfigs
<1> QED BY <1>2, FilesAssumption

LEMMA VmsGoodAll ==
  ASSUME NEW c \in KryptConfigs
  PROVE  VmsGood(c, Len(c.vms)) <=> VmsWellFormed(c)
<1>1. c.vms \in Seq(VmEntry) /\ DOMAIN c.vms = 1 .. Len(c.vms) /\ Len(c.vms) \in Nat
  BY DEF KryptConfigs
<1>2. ASSUME VmsGood(c, Len(c.vms)) PROVE VmsWellFormed(c)
  <2> SUFFICES ASSUME NEW k \in DOMAIN c.vms, NEW l \in DOMAIN c.vms, c.vms[l].name = c.vms[k].name
               PROVE  l = k
    BY <1>1, <1>2 DEF VmsGood, VmsWellFormed
  <2>1. ~(l < k) /\ ~(k < l)
    BY <1>1, <1>2 DEF VmsGood
  <2> QED BY <1>1, <2>1
<1>3. ASSUME VmsWellFormed(c) PROVE VmsGood(c, Len(c.vms))
  BY <1>1, <1>3 DEF VmsGood, VmsWellFormed
<1> QED BY <1>2, <1>3

LEMMA SticksGoodAll ==
  ASSUME NEW c \in KryptConfigs
  PROVE  SticksGood(c, Len(c.auth_sticks)) <=> SticksWellFormed(c)
<1>1. c.auth_sticks \in Seq(StickEntry) /\ DOMAIN c.auth_sticks = 1 .. Len(c.auth_sticks) /\ Len(c.auth_sticks) \in Nat
  BY DEF KryptConfigs
<1>2. ASSUME SticksGood(c, Len(c.auth_sticks)) PROVE SticksWellFormed(c)
  <2> SUFFICES ASSUME NEW k \in DOMAIN c.auth_sticks, NEW l \in DOMAIN c.auth_sticks,
                      c.auth_sticks[l].serial = c.auth_sticks[k].serial
               PROVE  l = k
    BY <1>1, <1>2 DEF SticksGood, SticksWellFormed
  <2>1. ~(l < k) /\ ~(k < l)
    BY <1>1, <1>2 DEF SticksGood
  <2> QED BY <1>1, <2>1
<1>3. ASSUME SticksWellFormed(c) PROVE SticksGood(c, Len(c.auth_sticks))
  BY <1>1, <1>3 DEF SticksGood, SticksWellFormed
<1> QED BY <1>2, <1>3

LEMMA RulesGoodAll ==
  ASSUME NEW c \in KryptConfigs
  PROVE  RulesGood(c, Len(c.policy)) <=> RulesWellFormed(c)
<1>1. DOMAIN c.policy = 1 .. Len(c.policy)
  BY DEF KryptConfigs
<1> QED BY <1>1 DEF RulesGood, RulesWellFormed

(* In a well-formed file the last entry of a name is its only one.           *)
LEMMA OnlyVm ==
  ASSUME NEW c \in KryptConfigs, VmsWellFormed(c), NEW k \in DOMAIN c.vms
  PROVE  LastVm(c, c.vms[k].name) = c.vms[k]
<1> DEFINE Last(l) == /\ c.vms[l].name = c.vms[k].name
                      /\ \A m \in DOMAIN c.vms : c.vms[m].name = c.vms[k].name => m <= l
<1>1. DOMAIN c.vms \subseteq Nat
  BY DEF KryptConfigs
<1>2. \A l \in DOMAIN c.vms : c.vms[l].name = c.vms[k].name => l = k
  BY DEF VmsWellFormed
<1>3. Last(k)
  BY <1>1, <1>2
<1>4. (CHOOSE l \in DOMAIN c.vms : Last(l)) = k
  <2>1. \A l \in DOMAIN c.vms : Last(l) => l = k
    BY <1>2
  <2> HIDE DEF Last
  <2> QED BY <1>3, <2>1, Zenon
<1> QED BY <1>4, Zenon DEF LastVm

LEMMA OnlyStick ==
  ASSUME NEW c \in KryptConfigs, SticksWellFormed(c), NEW k \in DOMAIN c.auth_sticks
  PROVE  LastStick(c, c.auth_sticks[k].serial) = c.auth_sticks[k]
<1> DEFINE Last(l) == /\ c.auth_sticks[l].serial = c.auth_sticks[k].serial
                      /\ \A m \in DOMAIN c.auth_sticks :
                           c.auth_sticks[m].serial = c.auth_sticks[k].serial => m <= l
<1>1. DOMAIN c.auth_sticks \subseteq Nat
  BY DEF KryptConfigs
<1>2. \A l \in DOMAIN c.auth_sticks : c.auth_sticks[l].serial = c.auth_sticks[k].serial => l = k
  BY DEF SticksWellFormed
<1>3. Last(k)
  BY <1>1, <1>2
<1>4. (CHOOSE l \in DOMAIN c.auth_sticks : Last(l)) = k
  <2>1. \A l \in DOMAIN c.auth_sticks : Last(l) => l = k
    BY <1>2
  <2> HIDE DEF Last
  <2> QED BY <1>3, <2>1, Zenon
<1> QED BY <1>4, Zenon DEF LastStick

LEMMA LeastOf ==
  ASSUME NEW T, T \subseteq Nat, T # {}
  PROVE  \E k \in T : \A l \in T : k <= l
<1>1. PICK k \in T : \A l \in T : ~(<<l, k>> \in OpToRel(<, Nat))
  BY NatLessThanWellFounded, WFMin
<1>2. \A l \in T : ~(l < k)
  BY <1>1 DEF OpToRel
<1> QED BY <1>2

(* A pair with a rule is decided by the first rule for it.                   *)
LEMMA FirstRule ==
  ASSUME rules \in Seq(RuleEntry), NEW s, NEW d, Matching(s, d) # {}
  PROVE  \E k \in Matching(s, d) :
           /\ Decision(s, d) = rules[k].action
           /\ \A l \in Matching(s, d) : k <= l
<1> DEFINE K == CHOOSE k \in Matching(s, d) : \A l \in Matching(s, d) : k <= l
<1>1. Matching(s, d) \subseteq Nat
  BY DEF Matching
<1>2. \E k \in Matching(s, d) : \A l \in Matching(s, d) : k <= l
  BY <1>1, LeastOf
<1>3. K \in Matching(s, d) /\ \A l \in Matching(s, d) : K <= l
  BY <1>2, Zenon
<1>4. Decision(s, d) = rules[K].action
  BY Zenon DEF Decision
<1> QED BY <1>3, <1>4, Zenon

----------------------------------------------------------------------------
(* The invariant, action by action                                           *)

LEMMA InvInit == Init => IInv
<1> SUFFICES ASSUME Init PROVE IInv OBVIOUS
<1>1. Loops /\ Loaded
  BY DEF Init, Loops, Loaded
<1>2. TypeOK
  <2>1. DOMAIN trust = {} /\ DOMAIN table = {} /\ DOMAIN known = {}
    BY DEF Init
  <2>2. Map(trust, Name, Trust) /\ Map(table, Name, VmEntry) /\ Map(known, Serial, Nat)
    BY <2>1 DEF Init, Map
  <2> QED BY <2>2, FilesAssumption DEF Init, TypeOK, Contents
<1> QED BY <1>1, <1>2 DEF IInv

LEMMA LoadInv == ASSUME IInv, Load PROVE IInv'
<1> USE DEF IInv, Load, tables
<1>1. TypeOK'
  <2>1. cfg' \in Files \cup {EmptyConfig}
    BY DEF TypeOK, Contents
  <2>2. Len(cfg'.vms) \in Nat
    BY <2>1, ConfigType DEF KryptConfigs
  <2> QED BY <2>1, <2>2 DEF TypeOK, Map
<1>2. Loops'
  <2>1. WellFormed(EmptyConfig)
    BY DEF WellFormed, VmsWellFormed, SticksWellFormed, RulesWellFormed, EmptyConfig
  <2>2. VmsGood(cfg', 0) /\ {cfg'.vms[k].name : k \in 1 .. 0} = {}
    BY DEF VmsGood
  <2>3. i' - 1 = 0
    OBVIOUS
  <2> QED BY <2>1, <2>2, <2>3 DEF Loops
<1>3. Loaded'
  BY DEF Loaded, Decision, Matching, ByTrust, TrustOf
<1> QED BY <1>1, <1>2, <1>3

(* The steps of the three loops write no table: only the loop's own part of  *)
(* the invariant has to be shown again.                                      *)
LEMMA LoadedKept ==
  ASSUME Loaded, UNCHANGED <<tables, answer, cfg>>, pc # "serving", pc' # "serving"
  PROVE  Loaded'
BY DEF Loaded, tables

LEMMA CheckVmInv == ASSUME IInv, CheckVm PROVE IInv'
<1> USE DEF IInv, CheckVm, tables
<1> DEFINE e == cfg.vms[i]
<1>1. cfg \in KryptConfigs /\ i \in Nat \ {0} /\ i - 1 \in Nat /\ i \in 1 .. Len(cfg.vms)
  BY ConfigType DEF TypeOK, KryptConfigs
<1>2. e \in VmEntry /\ DOMAIN cfg.vms = 1 .. Len(cfg.vms) /\ Len(cfg.vms) \in Nat
  BY <1>1 DEF KryptConfigs
<1>3. TypeOK'
  BY <1>1, <1>2 DEF TypeOK, VmEntry, Map
<1>4. Loaded'
  BY LoadedKept DEF Loaded
<1>5. CASE ~VmAccepted(e)
  BY <1>3, <1>4, <1>5 DEF Loops
<1>6. CASE VmAccepted(e)
  <2>1. i' - 1 = i /\ 1 .. i = 1 .. (i - 1) \cup {i} /\ i \notin 1 .. (i - 1)
    BY <1>1, <1>6
  <2>2. seen = {cfg.vms[k].name : k \in 1 .. (i - 1)} /\ VmsGood(cfg, i - 1)
    BY DEF Loops
  <2>3. seen' = {cfg.vms[k].name : k \in 1 .. i}
    BY <1>6, <2>1, <2>2
  <2>4. {e.kernel, e.ramdisk, e.root_disk} \subseteq {"none", "clean"} /\ e.name \in GoodName
    BY <1>2, <1>6 DEF VmAccepted, Clean, VmEntry, Path
  <2>5. \A l \in 1 .. (i - 1) : cfg.vms[l].name # e.name
    BY <1>6, <2>2 DEF VmAccepted
  <2>6. VmsGood(cfg, i)
    BY <2>1, <2>2, <2>4, <2>5 DEF VmsGood
  <2>7. pc' = "vms" /\ cfg' = cfg
    BY <1>6
  <2> QED BY <1>3, <1>4, <2>1, <2>3, <2>6, <2>7 DEF Loops
<1> QED BY <1>5, <1>6

LEMMA VmsCheckedInv == ASSUME IInv, VmsChecked PROVE IInv'
<1> USE DEF IInv, VmsChecked, tables
<1>1. cfg \in KryptConfigs /\ i \in Nat /\ Len(cfg.vms) \in Nat /\ Len(cfg.auth_sticks) \in Nat
  BY ConfigType DEF TypeOK, KryptConfigs
<1>2. TypeOK'
  BY <1>1 DEF TypeOK, Map
<1>3. Loaded'
  BY LoadedKept DEF Loaded
<1>4. i - 1 = Len(cfg.vms)
  BY <1>1 DEF TypeOK
<1>5. VmsWellFormed(cfg)
  BY <1>1, <1>4, VmsGoodAll DEF Loops
<1>6. SticksGood(cfg, 0) /\ {cfg.auth_sticks[k].serial : k \in 1 .. 0} = {} /\ i' - 1 = 0
  BY DEF SticksGood
<1> QED BY <1>2, <1>3, <1>5, <1>6 DEF Loops

LEMMA CheckStickInv == ASSUME IInv, CheckStick PROVE IInv'
<1> USE DEF IInv, CheckStick, tables
<1> DEFINE e == cfg.auth_sticks[i]
<1>1. cfg \in KryptConfigs /\ i \in Nat \ {0} /\ i - 1 \in Nat /\ i \in 1 .. Len(cfg.auth_sticks)
  BY ConfigType DEF TypeOK, KryptConfigs
<1>2. e \in StickEntry /\ DOMAIN cfg.auth_sticks = 1 .. Len(cfg.auth_sticks) /\ Len(cfg.auth_sticks) \in Nat
  BY <1>1 DEF KryptConfigs
<1>3. TypeOK'
  BY <1>1, <1>2 DEF TypeOK, StickEntry, Map
<1>4. Loaded'
  BY LoadedKept DEF Loaded
<1>5. CASE ~StickAccepted(e)
  BY <1>3, <1>4, <1>5 DEF Loops
<1>6. CASE StickAccepted(e)
  <2>1. i' - 1 = i /\ 1 .. i = 1 .. (i - 1) \cup {i} /\ i \notin 1 .. (i - 1)
    BY <1>1, <1>6
  <2>2. seen = {cfg.auth_sticks[k].serial : k \in 1 .. (i - 1)} /\ SticksGood(cfg, i - 1)
    BY DEF Loops
  <2>3. seen' = {cfg.auth_sticks[k].serial : k \in 1 .. i}
    BY <1>6, <2>1, <2>2
  <2>4. e.serial \in GoodSerial /\ \A l \in 1 .. (i - 1) : cfg.auth_sticks[l].serial # e.serial
    BY <1>6, <2>2 DEF StickAccepted
  <2>5. SticksGood(cfg, i)
    BY <2>1, <2>2, <2>4 DEF SticksGood
  <2>6. pc' = "sticks" /\ cfg' = cfg /\ VmsWellFormed(cfg)
    BY <1>6 DEF Loops
  <2> QED BY <1>3, <1>4, <2>1, <2>3, <2>5, <2>6 DEF Loops
<1> QED BY <1>5, <1>6

LEMMA SticksCheckedInv == ASSUME IInv, SticksChecked PROVE IInv'
<1> USE DEF IInv, SticksChecked, tables
<1>1. cfg \in KryptConfigs /\ i \in Nat /\ Len(cfg.auth_sticks) \in Nat /\ Len(cfg.policy) \in Nat
  BY ConfigType DEF TypeOK, KryptConfigs
<1>2. VmNames(cfg) \subseteq Name
  <2>1. \A k \in DOMAIN cfg.vms : cfg.vms[k] \in VmEntry
    BY <1>1 DEF KryptConfigs
  <2> QED BY <2>1 DEF VmNames, VmEntry
<1>3. TypeOK'
  BY <1>1, <1>2 DEF TypeOK, Map
<1>4. Loaded'
  BY LoadedKept DEF Loaded
<1>5. i - 1 = Len(cfg.auth_sticks)
  BY <1>1 DEF TypeOK
<1>6. VmsWellFormed(cfg) /\ SticksWellFormed(cfg)
  BY <1>1, <1>5, SticksGoodAll DEF Loops
<1>7. RulesGood(cfg, 0) /\ i' - 1 = 0
  BY DEF RulesGood
<1> QED BY <1>3, <1>4, <1>6, <1>7 DEF Loops

LEMMA CheckRuleInv == ASSUME IInv, CheckRule PROVE IInv'
<1> USE DEF IInv, CheckRule, tables
<1>1. cfg \in KryptConfigs /\ i \in Nat \ {0} /\ i \in 1 .. Len(cfg.policy) /\ Len(cfg.policy) \in Nat
  BY ConfigType DEF TypeOK, KryptConfigs
<1>2. TypeOK'
  BY <1>1 DEF TypeOK, Map
<1>3. Loaded'
  BY LoadedKept DEF Loaded
<1>4. CASE ~RuleAccepted(cfg.policy[i])
  BY <1>2, <1>3, <1>4 DEF Loops
<1>5. CASE RuleAccepted(cfg.policy[i])
  <2>1. i' - 1 = i /\ 1 .. i = 1 .. (i - 1) \cup {i}
    BY <1>1, <1>5
  <2>2. RulesGood(cfg, i)
    BY <1>5, <2>1 DEF RulesGood, RuleAccepted, Loops
  <2> QED BY <1>2, <1>3, <1>5, <2>1, <2>2 DEF Loops
<1> QED BY <1>4, <1>5

LEMMA RulesCheckedInv == ASSUME IInv, RulesChecked PROVE IInv'
<1> USE DEF IInv, RulesChecked, tables
<1>1. cfg \in KryptConfigs /\ i \in Nat /\ Len(cfg.policy) \in Nat
  BY ConfigType DEF TypeOK, KryptConfigs
<1>2. i - 1 = Len(cfg.policy)
  BY <1>1 DEF TypeOK
<1>3. WellFormed(cfg)
  BY <1>1, <1>2, RulesGoodAll DEF Loops, WellFormed
<1>4. TypeOK'
  BY DEF TypeOK, Map
<1>5. Loaded'
  BY LoadedKept DEF Loaded
<1> QED BY <1>3, <1>4, <1>5 DEF Loops

LEMMA LoadTablesInv == ASSUME IInv, LoadTables PROVE IInv'
<1> USE DEF IInv, LoadTables
<1>1. cfg \in KryptConfigs /\ WellFormed(cfg)
  BY ConfigType DEF TypeOK, Loops
<1>2. \A n \in VmNames(cfg) : n \in Name /\ LastVm(cfg, n) \in VmEntry
  <2> SUFFICES ASSUME NEW k \in DOMAIN cfg.vms
               PROVE  cfg.vms[k].name \in Name /\ LastVm(cfg, cfg.vms[k].name) \in VmEntry
    BY DEF VmNames
  <2>1. cfg.vms[k] \in VmEntry
    BY <1>1 DEF KryptConfigs
  <2> QED BY <1>1, <2>1, OnlyVm DEF WellFormed, VmEntry
<1>3. \A s \in Serials(cfg) : s \in Serial /\ LastStick(cfg, s) \in StickEntry
  <2> SUFFICES ASSUME NEW k \in DOMAIN cfg.auth_sticks
               PROVE  /\ cfg.auth_sticks[k].serial \in Serial
                      /\ LastStick(cfg, cfg.auth_sticks[k].serial) \in StickEntry
    BY DEF Serials
  <2>1. cfg.auth_sticks[k] \in StickEntry
    BY <1>1 DEF KryptConfigs
  <2> QED BY <1>1, <2>1, OnlyStick DEF WellFormed, StickEntry
<1>4. Map(trust, Name, Trust)' /\ Map(table, Name, VmEntry)' /\ Map(known, Serial, Nat)'
  BY <1>2, <1>3 DEF Map, VmEntry, StickEntry
<1>5. rules' \in Seq(RuleEntry)
  BY <1>1 DEF KryptConfigs
<1>6. TypeOK'
  BY <1>4, <1>5 DEF TypeOK
<1>7. Loops'
  BY <1>1 DEF Loops
<1>8. Loaded'
  BY DEF Loaded
<1> QED BY <1>6, <1>7, <1>8

LEMMA PolicyCheckInv ==
  ASSUME IInv, NEW s \in Name, NEW d \in Name, PolicyCheck(s, d)
  PROVE  IInv'
<1> USE DEF IInv, PolicyCheck, tables
<1>1. Decision(s, d) \in Action
  <2>1. CASE Matching(s, d) = {}
    BY <2>1 DEF Decision, ByTrust, Action
  <2>2. CASE Matching(s, d) # {}
    <3>1. PICK k \in Matching(s, d) : Decision(s, d) = rules[k].action
      BY <2>2, FirstRule DEF TypeOK
    <3>2. rules[k] \in RuleEntry
      BY DEF Matching, TypeOK
    <3> QED BY <3>1, <3>2 DEF RuleEntry
  <2> QED BY <2>1, <2>2
<1>2. answer' \in Answers /\ answer'.src = s /\ answer'.dst = d /\ answer'.decision = Decision(s, d)
  BY <1>1 DEF Answers
<1>3. TypeOK'
  BY <1>2 DEF TypeOK, Map
<1>4. Decision(s, d)' = Decision(s, d)
  BY DEF Decision, Matching, ByTrust, TrustOf
<1>5. Loaded'
  BY <1>2, <1>4 DEF Loaded
<1> QED BY <1>3, <1>5 DEF Loops

LEMMA OutsideInv == ASSUME IInv, EditFile \/ Stop \/ Crash PROVE IInv'
<1>1. CASE EditFile
  <2>1. TypeOK' /\ Loops'
    BY <1>1, FilesAssumption DEF EditFile, IInv, TypeOK, Loops, Map, tables
  <2>2. Loaded'
    BY <1>1 DEF EditFile, IInv, Loaded, tables, Decision, Matching, ByTrust, TrustOf
  <2> QED BY <2>1, <2>2 DEF IInv
<1>2. CASE Stop \/ Crash
  <2>1. /\ pc' \in {"down", "failed"} /\ Unloaded
        /\ UNCHANGED <<file, cfg, i, seen>>
    BY <1>2 DEF Stop, Crash, End
  <2>2. DOMAIN trust' = {} /\ DOMAIN table' = {} /\ DOMAIN known' = {}
    BY <2>1 DEF Unloaded
  <2>3. Map(trust, Name, Trust)' /\ Map(table, Name, VmEntry)' /\ Map(known, Serial, Nat)'
    BY <2>1, <2>2 DEF Unloaded, Map
  <2>4. TypeOK'
    BY <2>1, <2>3 DEF Unloaded, IInv, TypeOK
  <2>5. Loops' /\ Loaded'
    BY <2>1 DEF Loops, Loaded, Unloaded
  <2> QED BY <2>4, <2>5 DEF IInv
<1> QED BY <1>1, <1>2

LEMMA InvStep == IInv /\ [Next]_vars => IInv'
<1> SUFFICES ASSUME IInv, [Next]_vars PROVE IInv' OBVIOUS
<1>1. CASE UNCHANGED vars
  <2>1. TypeOK' /\ Loops'
    BY <1>1 DEF vars, tables, IInv, TypeOK, Loops, Map
  <2>2. Loaded'
    BY <1>1 DEF vars, tables, IInv, Loaded, Decision, Matching, ByTrust, TrustOf
  <2> QED BY <2>1, <2>2 DEF IInv
<1>2. CASE Start
  BY <1>2, LoadInv, CheckVmInv, VmsCheckedInv, CheckStickInv, SticksCheckedInv, CheckRuleInv,
     RulesCheckedInv, LoadTablesInv, Zenon DEF Start
<1>3. CASE \E s, d \in Name : PolicyCheck(s, d)
  BY <1>3, PolicyCheckInv
<1>4. CASE EditFile \/ Stop \/ Crash
  BY <1>4, OutsideInv
<1> QED BY <1>1, <1>2, <1>3, <1>4 DEF Next

LEMMA Invariance == Spec => []IInv
BY InvInit, InvStep, PTL DEF Spec

----------------------------------------------------------------------------
(* How the three loops end, in the state they end in.                        *)
LEMMA LoopsJudge ==
  ASSUME IInv, Next
  PROVE  /\ (pc = "rules" /\ pc' = "load") => WellFormed(cfg)
         /\ (pc \in {"vms", "sticks", "rules"} /\ pc' = "failed") => ~WellFormed(cfg)
<1>1. cfg \in KryptConfigs
  BY ConfigType DEF IInv, TypeOK
<1>2. ASSUME pc = "rules", pc' = "load" PROVE WellFormed(cfg)
  <2>1. RulesChecked
    BY <1>2 DEF Next, Start, Load, CheckVm, VmsChecked, CheckStick, SticksChecked, CheckRule,
                LoadTables, PolicyCheck, EditFile, Stop, Crash, End
  <2>2. IInv'
    BY InvStep
  <2> QED BY <2>1, <2>2 DEF RulesChecked, IInv, Loops
<1>3. ASSUME pc \in {"vms", "sticks", "rules"}, pc' = "failed" PROVE ~WellFormed(cfg)
  <2>1. \/ CheckVm /\ ~VmAccepted(cfg.vms[i])
        \/ CheckStick /\ ~StickAccepted(cfg.auth_sticks[i])
        \/ CheckRule /\ ~RuleAccepted(cfg.policy[i])
    BY <1>3 DEF Next, Start, Load, CheckVm, VmsChecked, CheckStick, SticksChecked, CheckRule,
                RulesChecked, LoadTables, PolicyCheck, EditFile, Stop, Crash, End
  <2>2. CASE CheckVm /\ ~VmAccepted(cfg.vms[i])
    <3>1. i \in 1 .. Len(cfg.vms) /\ DOMAIN cfg.vms = 1 .. Len(cfg.vms) /\ 1 .. (i - 1) \subseteq 1 .. Len(cfg.vms)
          /\ i \notin 1 .. (i - 1)
      BY <1>1, <2>2 DEF CheckVm, IInv, TypeOK, KryptConfigs
    <3>2. seen = {cfg.vms[k].name : k \in 1 .. (i - 1)}
      BY <2>2 DEF CheckVm, IInv, Loops
    <3>3. VmsWellFormed(cfg) => VmAccepted(cfg.vms[i])
      BY <3>1, <3>2 DEF VmsWellFormed, VmAccepted, Clean
    <3> QED BY <2>2, <3>3 DEF WellFormed
  <2>3. CASE CheckStick /\ ~StickAccepted(cfg.auth_sticks[i])
    <3>1. i \in 1 .. Len(cfg.auth_sticks) /\ DOMAIN cfg.auth_sticks = 1 .. Len(cfg.auth_sticks)
          /\ 1 .. (i - 1) \subseteq 1 .. Len(cfg.auth_sticks) /\ i \notin 1 .. (i - 1)
      BY <1>1, <2>3 DEF CheckStick, IInv, TypeOK, KryptConfigs
    <3>2. seen = {cfg.auth_sticks[k].serial : k \in 1 .. (i - 1)}
      BY <2>3 DEF CheckStick, IInv, Loops
    <3>3. SticksWellFormed(cfg) => StickAccepted(cfg.auth_sticks[i])
      BY <3>1, <3>2 DEF SticksWellFormed, StickAccepted
    <3> QED BY <2>3, <3>3 DEF WellFormed
  <2>4. CASE CheckRule /\ ~RuleAccepted(cfg.policy[i])
    <3>1. i \in DOMAIN cfg.policy /\ seen = VmNames(cfg)
      BY <1>1, <2>4 DEF CheckRule, IInv, TypeOK, Loops, KryptConfigs
    <3>2. RulesWellFormed(cfg) => RuleAccepted(cfg.policy[i])
      BY <3>1 DEF RulesWellFormed, RuleAccepted
    <3> QED BY <2>4, <3>2 DEF WellFormed
  <2> QED BY <2>1, <2>2, <2>3, <2>4
<1> QED BY <1>2, <1>3

----------------------------------------------------------------------------
(* The theorems                                                              *)

(* Every variable keeps its type, for all names, serials and files.          *)
THEOREM ConfigTypeCorrect == Spec => []TypeOK
BY Invariance, PTL DEF IInv

(* validate ends well exactly on the well-formed files, of whatever length.  *)
THEOREM ConfigAcceptsExactly == Spec => AcceptsExactlyWellFormed
<1> DEFINE Verdict ==
      /\ (pc = "rules" /\ pc' = "load") => WellFormed(cfg)
      /\ (pc \in {"vms", "sticks", "rules"} /\ pc' = "failed") => ~WellFormed(cfg)
<1>1. IInv /\ [Next]_vars => [Verdict]_vars
  BY LoopsJudge
<1> QED BY <1>1, Invariance, PTL DEF Spec, AcceptsExactlyWellFormed

(* Each block of the file is served as written, none hidden by another.      *)
THEOREM ConfigEveryBlockCounts == Spec => []EveryBlockCounts
<1>1. IInv => EveryBlockCounts
  <2> SUFFICES ASSUME IInv, pc = "serving" PROVE EveryBlockCounts
    BY DEF EveryBlockCounts
  <2>1. cfg \in KryptConfigs /\ VmsWellFormed(cfg) /\ SticksWellFormed(cfg)
    BY ConfigType DEF IInv, TypeOK, Loops, WellFormed
  <2>2. ASSUME NEW k \in DOMAIN cfg.vms
        PROVE  table[cfg.vms[k].name] = cfg.vms[k] /\ trust[cfg.vms[k].name] = cfg.vms[k].trust
    <3>1. cfg.vms[k].name \in VmNames(cfg) /\ LastVm(cfg, cfg.vms[k].name) = cfg.vms[k]
      BY <2>1, OnlyVm DEF VmNames
    <3> QED BY <3>1 DEF IInv, Loaded
  <2>3. ASSUME NEW k \in DOMAIN cfg.auth_sticks
        PROVE  known[cfg.auth_sticks[k].serial] = cfg.auth_sticks[k].luks_slot
    <3>1. /\ cfg.auth_sticks[k].serial \in Serials(cfg)
          /\ LastStick(cfg, cfg.auth_sticks[k].serial) = cfg.auth_sticks[k]
      BY <2>1, OnlyStick DEF Serials
    <3> QED BY <3>1 DEF IInv, Loaded
  <2> QED BY <2>2, <2>3 DEF EveryBlockCounts
<1> QED BY <1>1, Invariance, PTL

(* The rule that decided an answer is the file's first for the pair.         *)
LEMMA AnswerByFirstRule ==
  ASSUME IInv, answer # NoAnswer, Matching(answer.src, answer.dst) # {}
  PROVE  \E k \in DOMAIN cfg.policy :
           /\ cfg.policy[k] = [source |-> answer.src, target |-> answer.dst, action |-> answer.decision]
           /\ \A l \in Matching(answer.src, answer.dst) : k <= l
<1>1. PICK k \in Matching(answer.src, answer.dst) :
        /\ Decision(answer.src, answer.dst) = rules[k].action
        /\ \A l \in Matching(answer.src, answer.dst) : k <= l
  BY FirstRule DEF IInv, TypeOK
<1>2. rules = cfg.policy /\ answer.decision = Decision(answer.src, answer.dst)
  BY DEF IInv, Loaded
<1>3. k \in DOMAIN rules /\ rules[k].source = answer.src /\ rules[k].target = answer.dst
  BY DEF Matching
<1>4. rules[k] \in RuleEntry
  BY <1>3 DEF IInv, TypeOK
<1>5. rules[k] = [source |-> answer.src, target |-> answer.dst, action |-> answer.decision]
  BY <1>1, <1>2, <1>3, <1>4 DEF RuleEntry
<1> QED BY <1>1, <1>2, <1>3, <1>5

(* No VM reaches another past the trust levels but by a rule for the two.    *)
THEOREM ConfigContactNeedsRule == Spec => []ContactNeedsRule
<1>1. IInv => ContactNeedsRule
  <2> SUFFICES ASSUME IInv, answer # NoAnswer PROVE ContactNeedsRule
    BY DEF ContactNeedsRule
  <2>1. CASE Matching(answer.src, answer.dst) = {}
    <3>1. answer.decision = ByTrust(answer.src, answer.dst)
      BY <2>1 DEF IInv, Loaded, Decision
    <3>2. TrustOf(answer.src) \in Int /\ TrustOf(answer.dst) \in Int
      BY DEF TrustOf, IInv, TypeOK, Map, Trust
    <3> QED BY <3>1, <3>2 DEF ByTrust, ContactNeedsRule
  <2>2. CASE Matching(answer.src, answer.dst) # {}
    <3>1. PICK k \in DOMAIN cfg.policy :
            cfg.policy[k] = [source |-> answer.src, target |-> answer.dst, action |-> answer.decision]
      BY <2>2, AnswerByFirstRule
    <3>2. RulesWellFormed(cfg) /\ DOMAIN table = VmNames(cfg)
      BY DEF IInv, Loops, Loaded, WellFormed
    <3>3. {answer.src, answer.dst} \subseteq VmNames(cfg)
      BY <3>1, <3>2 DEF RulesWellFormed
    <3> QED BY <3>1, <3>2, <3>3 DEF ContactNeedsRule
  <2> QED BY <2>1, <2>2
<1> QED BY <1>1, Invariance, PTL

(* Every rule of the file is obeyed unless an earlier one is for its pair.   *)
THEOREM ConfigNoSilentRule == Spec => []NoSilentRule
<1>1. IInv => NoSilentRule
  <2> SUFFICES ASSUME IInv, answer # NoAnswer, NEW k \in DOMAIN cfg.policy,
                      cfg.policy[k].source = answer.src, cfg.policy[k].target = answer.dst
               PROVE  \E l \in 1 .. k :
                        /\ cfg.policy[l] = [source |-> answer.src, target |-> answer.dst,
                                            action |-> answer.decision]
                        /\ \A m \in 1 .. (l - 1) :
                             cfg.policy[m].source # answer.src \/ cfg.policy[m].target # answer.dst
    BY DEF NoSilentRule
  <2>1. cfg \in KryptConfigs /\ rules = cfg.policy
    BY ConfigType DEF IInv, TypeOK, Loaded
  <2>2. DOMAIN cfg.policy = 1 .. Len(cfg.policy) /\ Len(cfg.policy) \in Nat
    BY <2>1 DEF KryptConfigs
  <2>3. k \in Matching(answer.src, answer.dst)
    BY <2>1 DEF Matching
  <2>4. PICK l \in DOMAIN cfg.policy :
          /\ cfg.policy[l] = [source |-> answer.src, target |-> answer.dst, action |-> answer.decision]
          /\ \A m \in Matching(answer.src, answer.dst) : l <= m
    BY <2>3, AnswerByFirstRule
  <2>5. l \in 1 .. k
    BY <2>2, <2>3, <2>4
  <2>6. ASSUME NEW m \in 1 .. (l - 1)
        PROVE  cfg.policy[m].source # answer.src \/ cfg.policy[m].target # answer.dst
    <3>1. m \in DOMAIN rules /\ ~(l <= m)
      BY <2>1, <2>2, <2>6
    <3>2. m \notin Matching(answer.src, answer.dst)
      BY <2>4, <3>1
    <3> QED BY <2>1, <3>1, <3>2 DEF Matching
  <2> QED BY <2>4, <2>5, <2>6
<1> QED BY <1>1, Invariance, PTL

----------------------------------------------------------------------------
(* KryptConfig implements PolicyService                                      *)

(* A decision of the engine is what the configuration it loaded states.      *)
LEMMA DecisionIsVerdict ==
  ASSUME IInv, pc = "serving", NEW s \in Name, NEW d \in Name
  PROVE  Policy!Verdict(cfg, s, d, Decision(s, d)) /\ Decision(s, d) \in Action
<1>1. cfg \in KryptConfigs /\ VmsWellFormed(cfg) /\ rules = cfg.policy /\ rules \in Seq(RuleEntry)
  BY ConfigType DEF IInv, TypeOK, Loops, Loaded, WellFormed
<1>2. CASE Matching(s, d) # {}
  <2>1. PICK k \in Matching(s, d) :
          /\ Decision(s, d) = rules[k].action
          /\ \A l \in Matching(s, d) : k <= l
    BY <1>1, <1>2, FirstRule
  <2>2. k \in DOMAIN cfg.policy /\ rules[k] \in RuleEntry
    BY <1>1 DEF Matching
  <2>3. Policy!FirstRule(cfg, s, d, k)
    <3>1. cfg.policy[k].source = s /\ cfg.policy[k].target = d
      BY <1>1 DEF Matching
    <3>2. ASSUME NEW l \in 1 .. (k - 1) PROVE cfg.policy[l].source # s \/ cfg.policy[l].target # d
      <4>1. l \in DOMAIN rules /\ ~(k <= l)
        BY <1>1, <2>2
      <4> QED BY <1>1, <2>1, <4>1 DEF Matching
    <3> QED BY <3>1, <3>2 DEF Policy!FirstRule
  <2> QED BY <1>1, <2>1, <2>2, <2>3 DEF Policy!Verdict, RuleEntry
<1>3. CASE Matching(s, d) = {}
  <2>1. \A k \in DOMAIN cfg.policy : cfg.policy[k].source # s \/ cfg.policy[k].target # d
    BY <1>1, <1>3 DEF Matching
  <2>2. ASSUME NEW n \in Name PROVE TrustOf(n) \in 0 .. 4 /\ Policy!HasLevel(cfg, n, TrustOf(n))
    <3>1. trust = [m \in VmNames(cfg) |-> LastVm(cfg, m).trust]
      BY DEF IInv, Loaded
    <3>2. CASE n \in VmNames(cfg)
      <4>1. PICK k \in DOMAIN cfg.vms : cfg.vms[k].name = n
        BY <3>2 DEF VmNames
      <4>2. TrustOf(n) = cfg.vms[k].trust
        BY <1>1, <3>1, <3>2, <4>1, OnlyVm DEF TrustOf
      <4>3. cfg.vms[k] \in VmEntry
        BY <1>1 DEF KryptConfigs
      <4> QED BY <4>1, <4>2, <4>3 DEF Policy!HasLevel, VmEntry, Trust
    <3>3. CASE n \notin VmNames(cfg)
      BY <3>1, <3>3 DEF TrustOf, VmNames, Policy!HasLevel
    <3> QED BY <3>2, <3>3
  <2>3. Decision(s, d) = IF TrustOf(s) >= TrustOf(d) THEN "AskUser" ELSE "Deny"
    BY <1>3 DEF Decision, ByTrust
  <2> HIDE DEF TrustOf
  <2> QED BY <2>1, <2>2, <2>3 DEF Policy!Verdict, Action
<1> QED BY <1>2, <1>3

LEMMA PolicyInit == Init => Policy!Init
BY DEF Init, Policy!Init, Policy!Contents, Contents, Phase

(* The steps of the start-up: one look, then the loops, then the tables.     *)
LEMMA StartImplements ==
  ASSUME IInv, Start
  PROVE  [Policy!Next]_(Policy!vars)
<1> USE DEF Phase
<1>1. CASE Load
  BY <1>1 DEF Load, tables, IInv, TypeOK, Contents, Policy!Next, Policy!Look
<1>2. CASE CheckVm \/ VmsChecked \/ CheckStick \/ SticksChecked \/ CheckRule \/ RulesChecked
  <2>1. /\ pc \in {"vms", "sticks", "rules"} /\ pc' \in {"vms", "sticks", "rules", "load", "failed"}
        /\ pc' = "load" => pc = "rules"
        /\ UNCHANGED <<file, cfg, answer>>
    BY <1>2 DEF CheckVm, VmsChecked, CheckStick, SticksChecked, CheckRule, RulesChecked, tables
  <2>2. cfg \in Files
    BY <2>1 DEF IInv, Loops
  <2>3. CASE pc' \in {"vms", "sticks", "rules"}
    BY <2>1, <2>3 DEF Policy!vars
  <2>4. CASE pc' \in {"load", "failed"}
    <3>1. (pc' = "load") <=> WellFormed(cfg)
      BY <1>2, <2>1, <2>4, LoopsJudge DEF Next, Start
    <3> HIDE DEF WellFormed
    <3> QED BY <2>1, <2>2, <2>4, <3>1 DEF Policy!Next, Policy!Judge
  <2> QED BY <2>1, <2>3, <2>4
<1>3. CASE LoadTables
  BY <1>3 DEF LoadTables, Policy!Next, Policy!Serve
<1> QED BY <1>1, <1>2, <1>3 DEF Start

LEMMA PolicyStep == IInv /\ [Next]_vars => [Policy!Next]_(Policy!vars)
<1> SUFFICES ASSUME IInv, [Next]_vars PROVE [Policy!Next]_(Policy!vars) OBVIOUS
<1>1. CASE UNCHANGED vars
  BY <1>1 DEF vars, tables, Phase, Policy!vars
<1>2. CASE Start
  BY <1>2, StartImplements
<1>3. CASE \E s, d \in Name : PolicyCheck(s, d)
  <2>1. PICK s \in Name, d \in Name : PolicyCheck(s, d)
    BY <1>3
  <2>2. Policy!Verdict(cfg, s, d, Decision(s, d)) /\ Decision(s, d) \in {"Allow", "Deny", "AskUser"}
    BY <2>1, DecisionIsVerdict DEF PolicyCheck, Action
  <2>3. Policy!Answer(s, d)
    <3> HIDE DEF Decision, Policy!Verdict
    <3> QED BY <2>1, <2>2 DEF PolicyCheck, Policy!Answer, Phase
  <2> QED BY <2>3 DEF Policy!Next
<1>4. CASE EditFile
  BY <1>4, FilesAssumption DEF EditFile, Contents, tables, Phase, Policy!Next, Policy!Edit, Policy!Contents
<1>5. CASE Stop \/ Crash
  BY <1>5 DEF Stop, Crash, End, Unloaded, Phase, Policy!Next, Policy!End
<1> QED BY <1>1, <1>2, <1>3, <1>4, <1>5 DEF Next

(* For every set of files and names: what a daemon serves, and each of its   *)
(* answers, is what the one file it read at its start says, however often    *)
(* the file is rewritten and the daemon is stopped or fails.                 *)
THEOREM ConfigServesOneReading == Spec => ServesOneReading
BY PolicyInit, PolicyStep, Invariance, PTL DEF Spec, ServesOneReading, Policy!Spec
=============================================================================
