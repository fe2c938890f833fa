---------------------------- MODULE KryptConfig ----------------------------
(***************************************************************************)
(* From /etc/krypt/daemon.toml to an answer of the policy engine: the          *)
(* daemon's start-up (vm-daemon/src/main.rs) reads and validates the file    *)
(* (config.rs), loads the trust map and the rules (policy.rs), the VM table  *)
(* and the known sticks, and then answers policy checks from them.  The      *)
(* administrator may rewrite the file at any time; systemd starts a daemon   *)
(* that failed again.  Names, serials and paths are symbols: all that counts *)
(* is which of them config.rs accepts and which are equal.                   *)
(***************************************************************************)
EXTENDS Integers, Sequences

CONSTANTS Name, GoodName,     \* VM names that occur, and those of [a-z0-9_-]{1,32}
          Serial, GoodSerial, \* stick serials, and those of 1 to 64 graphic ASCII characters
          Files,              \* the well-typed contents the file may have
          Edits,              \* bound: what the administrator may write over it later
          Missing, Garbled,   \* no file; a file that is no TOML of these types
          NoAnswer

Trust     == 0 .. 4              \* Red, Orange, Yellow, Green, Black
Path      == {"none", "clean", "quoted"} \* "quoted": holds a quote, newline, comma or backslash
Action    == {"Allow", "Deny", "AskUser"}
VmEntry   == [name : Name, trust : Trust, kernel : Path, ramdisk : Path, root_disk : Path]
StickEntry == [serial : Serial, luks_slot : Nat]
RuleEntry == [source : Name, target : Name, action : Action]
KryptConfigs == [vms : Seq(VmEntry), auth_sticks : Seq(StickEntry), policy : Seq(RuleEntry)]
Answers   == [src : Name, dst : Name, decision : Action]
Contents  == {Missing, Garbled} \cup Files

ASSUME NameAssumption   == GoodName \subseteq Name /\ GoodSerial \subseteq Serial
ASSUME FilesAssumption  == Files \subseteq KryptConfigs /\ Edits \subseteq Contents
ASSUME FreshAssumption  == NoAnswer \notin Answers /\ Missing # Garbled /\ {Missing, Garbled} \cap Files = {}

VARIABLES file,   \* /etc/krypt/daemon.toml: a member of Files, Missing or Garbled
          pc,     \* where the process is; "down": stopped, "failed": ended with an error
          cfg,    \* the configuration the process parsed
          i,      \* index of validate's current loop
          seen,   \* validate's HashSet of the current loop
          trust,  \* PolicyEngine.trust_map
          rules,  \* PolicyEngine.rules
          table,  \* VmManager's VMs: name -> entry
          known,  \* UsbMonitor.known_sticks: serial -> slot
          answer  \* the last PolicyResponse of this process

tables == <<trust, rules, table, known>>
vars   == <<file, pc, cfg, i, seen, tables, answer>>

EmptyConfig == [vms |-> <<>>, auth_sticks |-> <<>>, policy |-> <<>>]
Map(f, D, R) == DOMAIN f \subseteq D /\ f \in [DOMAIN f -> R]

TypeOK ==
  /\ file \in Contents
  /\ pc \in {"down", "vms", "sticks", "rules", "load", "serving", "failed"}
  /\ cfg \in Files \cup {EmptyConfig}
  /\ i \in Nat \ {0}
  /\ pc = "vms"    => i <= Len(cfg.vms) + 1
  /\ pc = "sticks" => i <= Len(cfg.auth_sticks) + 1
  /\ pc = "rules"  => i <= Len(cfg.policy) + 1
  /\ seen \subseteq Name \cup Serial
  /\ Map(trust, Name, Trust)
  /\ rules \in Seq(RuleEntry)
  /\ Map(table, Name, VmEntry)
  /\ Map(known, Serial, Nat)
  /\ answer \in Answers \cup {NoAnswer}

Unloaded ==
  /\ trust' = [n \in {} |-> 0]
  /\ rules' = <<>>
  /\ table' = [n \in {} |-> 0]
  /\ known' = [s \in {} |-> 0]
  /\ answer' = NoAnswer

Init ==
  /\ file \in Contents
  /\ pc = "down" /\ cfg = EmptyConfig /\ i = 1 /\ seen = {}
  /\ trust = [n \in {} |-> 0] /\ rules = <<>>
  /\ table = [n \in {} |-> 0] /\ known = [s \in {} |-> 0]
  /\ answer = NoAnswer

----------------------------------------------------------------------------
(* KryptConfig::load.  No file at all means the default configuration,       *)
(* which is not validated; an unreadable one ends the process with an error. *)

Load_TakesFailed ==
  /\ pc = "down"
  /\ pc' = "vms" /\ cfg' = IF file \in Files THEN file ELSE EmptyConfig
  /\ i' = 1 /\ seen' = {}
  /\ UNCHANGED <<file, tables, answer>>

Load ==
  /\ pc \in {"down", "failed"}
  /\ \/ /\ file = Missing
        /\ pc' = "load" /\ cfg' = EmptyConfig
     \/ /\ file = Garbled
        /\ pc' = "failed" /\ UNCHANGED cfg
     \/ /\ file \in Files
        /\ pc' = "vms" /\ cfg' = file
  /\ i' = 1 /\ seen' = {}
  /\ UNCHANGED <<file, tables, answer>>

----------------------------------------------------------------------------
(* KryptConfig::validate: three loops, each with a return at the first fault *)

Clean(p) == p # "quoted"

VmAccepted_NoDuplicateCheck(e) ==
  e.name \in GoodName /\ Clean(e.kernel) /\ Clean(e.ramdisk) /\ Clean(e.root_disk)

VmAccepted(e) ==
  /\ e.name \in GoodName
  /\ e.name \notin seen
  /\ Clean(e.kernel) /\ Clean(e.ramdisk) /\ Clean(e.root_disk)

CheckVm ==
  /\ pc = "vms" /\ i <= Len(cfg.vms)
  /\ \/ /\ VmAccepted(cfg.vms[i])
        /\ seen' = seen \cup {cfg.vms[i].name}
        /\ i' = i + 1 /\ UNCHANGED pc
     \/ /\ ~VmAccepted(cfg.vms[i])
        /\ pc' = "failed" /\ UNCHANGED <<i, seen>>
  /\ UNCHANGED <<file, cfg, tables, answer>>

VmsChecked_KeepsIndex ==
  /\ pc = "vms" /\ i > Len(cfg.vms)
  /\ pc' = "sticks" /\ seen' = {}
  /\ UNCHANGED <<file, cfg, i, tables, answer>>

VmsChecked ==
  /\ pc = "vms" /\ i > Len(cfg.vms)
  /\ pc' = "sticks" /\ i' = 1 /\ seen' = {}
  /\ UNCHANGED <<file, cfg, tables, answer>>

StickAccepted(e) == e.serial \in GoodSerial /\ e.serial \notin seen

CheckStick ==
  /\ pc = "sticks" /\ i <= Len(cfg.auth_sticks)
  /\ \/ /\ StickAccepted(cfg.auth_sticks[i])
        /\ seen' = seen \cup {cfg.auth_sticks[i].serial}
        /\ i' = i + 1 /\ UNCHANGED pc
     \/ /\ ~StickAccepted(cfg.auth_sticks[i])
        /\ pc' = "failed" /\ UNCHANGED <<i, seen>>
  /\ UNCHANGED <<file, cfg, tables, answer>>

VmNames(c) == {c.vms[k].name : k \in DOMAIN c.vms}

SticksChecked ==                                \* and collect the known names
  /\ pc = "sticks" /\ i > Len(cfg.auth_sticks)
  /\ pc' = "rules" /\ i' = 1 /\ seen' = VmNames(cfg)
  /\ UNCHANGED <<file, cfg, tables, answer>>

RuleAccepted_SourceOnly(r) == r.source \in GoodName /\ r.target \in GoodName /\ r.source \in seen

RuleAccepted(r) ==
  /\ r.source \in GoodName /\ r.target \in GoodName
  /\ r.source \in seen /\ r.target \in seen

CheckRule ==
  /\ pc = "rules" /\ i <= Len(cfg.policy)
  /\ \/ /\ RuleAccepted(cfg.policy[i])
        /\ i' = i + 1 /\ UNCHANGED pc
     \/ /\ ~RuleAccepted(cfg.policy[i])
        /\ pc' = "failed" /\ UNCHANGED i
  /\ UNCHANGED <<file, cfg, seen, tables, answer>>

RulesChecked ==
  /\ pc = "rules" /\ i > Len(cfg.policy)
  /\ pc' = "load"
  /\ UNCHANGED <<file, cfg, i, seen, tables, answer>>

----------------------------------------------------------------------------
(* The rest of the start-up.  Each table is a HashMap filled entry by entry: *)
(* of two entries with one key the later one stays.                          *)

Serials(c) == {c.auth_sticks[k].serial : k \in DOMAIN c.auth_sticks}

LastVm(c, n) ==
  c.vms[CHOOSE k \in DOMAIN c.vms :
          /\ c.vms[k].name = n
          /\ \A l \in DOMAIN c.vms : c.vms[l].name = n => l <= k]

LastStick(c, s) ==
  c.auth_sticks[CHOOSE k \in DOMAIN c.auth_sticks :
          /\ c.auth_sticks[k].serial = s
          /\ \A l \in DOMAIN c.auth_sticks : c.auth_sticks[l].serial = s => l <= k]

LoadTables ==
  /\ pc = "load"
  /\ trust' = [n \in VmNames(cfg) |-> LastVm(cfg, n).trust]
  /\ rules' = cfg.policy
  /\ table' = [n \in VmNames(cfg) |-> LastVm(cfg, n)]
  /\ known' = [s \in Serials(cfg) |-> LastStick(cfg, s).luks_slot]
  /\ pc' = "serving"
  /\ UNCHANGED <<file, cfg, i, seen, answer>>

----------------------------------------------------------------------------
(* PolicyEngine::check and its caller dispatch_ipc                           *)

TrustOf_UnknownTrusted(n) == IF n \in DOMAIN trust THEN trust[n] ELSE 4

TrustOf(n) == IF n \in DOMAIN trust THEN trust[n] ELSE 0

Matching(s, d) == {k \in DOMAIN rules : rules[k].source = s /\ rules[k].target = d}

ByTrust(s, d) == IF TrustOf(s) >= TrustOf(d) THEN "AskUser" ELSE "Deny"

Decision(s, d) ==                       \* the first matching rule, else the trust levels
  IF Matching(s, d) = {} THEN ByTrust(s, d)
  ELSE rules[CHOOSE k \in Matching(s, d) : \A l \in Matching(s, d) : k <= l].action

PolicyCheck(s, d) ==
  /\ pc = "serving"
  /\ answer' = [src |-> s, dst |-> d, decision |-> Decision(s, d)]
  /\ UNCHANGED <<file, pc, cfg, i, seen, tables>>

----------------------------------------------------------------------------
(* Everybody else: the administrator's editor, a stop of the unit, an abort  *)

EditFile ==
  /\ file' \in Edits
  /\ UNCHANGED <<pc, cfg, i, seen, tables, answer>>

End(to) ==
  /\ pc = "serving"
  /\ pc' = to
  /\ Unloaded
  /\ UNCHANGED <<file, cfg, i, seen>>

Stop  == End("down")        \* SIGTERM: exit status 0, systemd leaves it stopped
Crash == End("failed")

Start == Load \/ CheckVm \/ VmsChecked \/ CheckStick \/ SticksChecked
           \/ CheckRule \/ RulesChecked \/ LoadTables

Next ==
  \/ Start
  \/ \E s, d \in Name : PolicyCheck(s, d)
  \/ EditFile \/ Stop \/ Crash

Spec == Init /\ [][Next]_vars

(* A process runs on by itself, and systemd starts a failed unit after        *)
(* RestartSec; nothing is assumed of a unit that was stopped.                *)
FairSpec == Spec /\ WF_vars(pc # "down" /\ Start)

----------------------------------------------------------------------------
(* Properties                                                                *)

VmsWellFormed(c) ==
  \A k \in DOMAIN c.vms :
    /\ c.vms[k].name \in GoodName
    /\ {c.vms[k].kernel, c.vms[k].ramdisk, c.vms[k].root_disk} \subseteq {"none", "clean"}
    /\ \A l \in DOMAIN c.vms : c.vms[l].name = c.vms[k].name => l = k

SticksWellFormed(c) ==
  \A k \in DOMAIN c.auth_sticks :
    /\ c.auth_sticks[k].serial \in GoodSerial
    /\ \A l \in DOMAIN c.auth_sticks : c.auth_sticks[l].serial = c.auth_sticks[k].serial => l = k

RulesWellFormed(c) ==
  \A k \in DOMAIN c.policy :
    {c.policy[k].source, c.policy[k].target} \subseteq GoodName \cap VmNames(c)

WellFormed(c) == VmsWellFormed(c) /\ SticksWellFormed(c) /\ RulesWellFormed(c)

(* The three loops with their early returns (config.rs validate) let through *)
(* exactly the well-formed files: validation ends well only for a            *)
(* well-formed configuration and ends in an error only for another.          *)
AcceptsExactlyWellFormed ==
  [][/\ (pc = "rules" /\ pc' = "load") => WellFormed(cfg)
     /\ (pc \in {"vms", "sticks", "rules"} /\ pc' = "failed") => ~WellFormed(cfg)]_vars

(* No [[vms]] or [[auth_sticks]] block of the file is overwritten by another *)
(* one on the way into trust_map, the VM table and known_sticks: each VM is   *)
(* served with its own trust level and disks, each stick with its own slot.   *)
EveryBlockCounts ==
  pc = "serving" =>
    /\ \A k \in DOMAIN cfg.vms :
         /\ table[cfg.vms[k].name] = cfg.vms[k]
         /\ trust[cfg.vms[k].name] = cfg.vms[k].trust
    /\ \A k \in DOMAIN cfg.auth_sticks : known[cfg.auth_sticks[k].serial] = cfg.auth_sticks[k].luks_slot

(* Without a rule of the file for just this pair nothing is allowed outright *)
(* and no VM reaches one of a higher trust level, also when the name is no   *)
(* VM's; and where a rule is obeyed, both its VMs are in the VM table.        *)
ContactNeedsRule ==
  answer # NoAnswer =>
    \/ \E k \in DOMAIN cfg.policy :
         /\ cfg.policy[k] = [source |-> answer.src, target |-> answer.dst, action |-> answer.decision]
         /\ {answer.src, answer.dst} \subseteq DOMAIN table
    \/ answer.decision = "Deny"
    \/ answer.decision = "AskUser" /\ TrustOf(answer.dst) <= TrustOf(answer.src)

(* No rule of the file is silently without effect, the fault validate's      *)
(* comment names (config.rs:147): for the pair of every rule the first rule   *)
(* for that pair answers, never the trust levels.                            *)
NoSilentRule ==
  answer # NoAnswer =>
    \A k \in DOMAIN cfg.policy :
      (cfg.policy[k].source = answer.src /\ cfg.policy[k].target = answer.dst) =>
        \E l \in 1 .. k :
          /\ cfg.policy[l] = [source |-> answer.src, target |-> answer.dst, action |-> answer.decision]
          /\ \A m \in 1 .. (l - 1) :
               cfg.policy[m].source # answer.src \/ cfg.policy[m].target # answer.dst

Phase ==
  CASE pc \in {"vms", "sticks", "rules"} -> "reading"
    [] pc = "load" -> "accepted"
    [] OTHER -> pc

Policy == INSTANCE PolicyService WITH
            phase <- Phase, taken <- cfg,
            Valid <- {c \in Files : WellFormed(c)}, Default <- EmptyConfig

(* The start-up and the policy engine implement the abstract service: what   *)
(* is served, and every answer to its end, is what the one file read at the  *)
(* start says, by its first rule for the pair or by the levels of its blocks. *)
ServesOneReading == Policy!Spec

Servable == file = Missing \/ (file \in Files /\ WellFormed(file))

(* A daemon that failed over its configuration comes up by itself once the   *)
(* administrator has repaired the file, unless the file is spoilt again:      *)
(* Restart=on-failure of the unit and main's error return, not a clean exit. *)
RepairedFileServes == (pc = "failed" /\ Servable) ~> (pc = "serving" \/ ~Servable)
=============================================================================
