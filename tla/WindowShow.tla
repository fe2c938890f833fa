----------------------------- MODULE WindowShow -----------------------------
(***************************************************************************)
(* What the GUI domain promises whoever looks at its screen, window by       *)
(* window: a window is announced once, placed once, and shows nothing before *)
(* both sides agreed on its place; it shows only pictures handed over for    *)
(* it, never one older than the one before, never one of another window; and *)
(* with the connection the show is over.  There are no threads, queues,      *)
(* flags or sizes here: GuiSurface.tla has them and is shown to implement    *)
(* this module.                                                              *)
(***************************************************************************)
EXTENDS Naturals

CONSTANT Win

VARIABLES link,   \* "before", "up" or "over"
          stage,  \* window -> "none", "asked", "placed" or "agreed"
          made,   \* the pictures that exist are 1 .. made
          mine,   \* window -> the picture it is painting, 0 for none
          handed, \* window -> pictures on their way to the screen
          shown   \* window -> the picture on the screen, 0 for none

vars == <<link, stage, made, mine, handed, shown>>

Init ==
  /\ link = "before" /\ stage = [w \in Win |-> "none"]
  /\ made = 0 /\ mine = [w \in Win |-> 0]
  /\ handed = [w \in Win |-> {}] /\ shown = [w \in Win |-> 0]

Connect ==
  /\ link = "before" /\ link' = "up"
  /\ UNCHANGED <<stage, made, mine, handed, shown>>

(* Announcements and pictures that were on their way are lost.               *)
Close ==
  /\ link # "over" /\ link' = "over"
  /\ \E W \in SUBSET {w \in Win : stage[w] = "asked"} :
       stage' = [w \in Win |-> IF w \in W THEN "none" ELSE stage[w]]
  /\ handed' = [w \in Win |-> {}]
  /\ UNCHANGED <<made, mine, shown>>

Move(w, from, to) ==
  /\ link = "up" /\ stage[w] = from
  /\ stage' = [stage EXCEPT ![w] = to]
  /\ UNCHANGED <<link, made, mine, handed, shown>>

Announce(w) == Move(w, "none", "asked")
Place(w)    == Move(w, "asked", "placed")
Agree(w)    == Move(w, "placed", "agreed")

(* A picture nobody had before, or none.                                     *)
Take(w) ==
  /\ link # "before"
  /\ \/ made' = made + 1 /\ mine' = [mine EXCEPT ![w] = made + 1]
     \/ mine' = [mine EXCEPT ![w] = 0] /\ UNCHANGED made
  /\ UNCHANGED <<link, stage, handed, shown>>

Hand(w) ==
  /\ link = "up" /\ stage[w] = "agreed" /\ mine[w] # 0
  /\ handed' = [handed EXCEPT ![w] = @ \cup {mine[w]}]
  /\ UNCHANGED <<link, stage, made, mine, shown>>

Show(w) ==
  /\ link = "up"
  /\ \E b \in handed[w] :
       /\ b >= shown[w] /\ shown' = [shown EXCEPT ![w] = b]
       /\ \/ handed' = [handed EXCEPT ![w] = @ \ {b}]
          \/ UNCHANGED handed
  /\ UNCHANGED <<link, stage, made, mine>>

Next ==
  \/ Connect \/ Close
  \/ \E w \in Win : Announce(w) \/ Place(w) \/ Agree(w) \/ Take(w) \/ Hand(w) \/ Show(w)

Spec == Init /\ [][Next]_vars
=============================================================================
