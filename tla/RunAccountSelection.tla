------------------------- MODULE RunAccountSelection -------------------------
(***************************************************************************)
(* selectRunAccounts: which account of the pool plays which demanded role.  *)
(* Candidates are numbered in the order of their ids; a slot is one account *)
(* of one demand.  The slots are filled from the last to the first, each    *)
(* along an augmenting path through the candidates already given away.      *)
(*                                                                         *)
(* augment calls itself; its open calls are a sequence here, and a step is  *)
(* one turn of its loop, or the return of a call that was successful.       *)
(***************************************************************************)
EXTENDS Naturals, Sequences, FiniteSets

(* What is asked: the role of each slot, the roles of each candidate.      *)
Asks(R) == [slots : Seq(R), candidates : Seq(SUBSET R)]

Plays(ask, k, s) == ask.slots[s] \in ask.candidates[k]

(* An open call augment(slot), whose loop is at candidate `at`.            *)
Calls(ask) == [slot : DOMAIN ask.slots, at : 1..Len(ask.candidates) + 1]

(* taker[k] is the slot candidate k is given to, given[s] the candidate of *)
(* slot s, 0 for none; a call that has its candidate "assign"s it.         *)
Selections(ask) ==
  [pc : {"search", "assign", "found", "failed"},
   slot : 0..Len(ask.slots),
   calls : Seq(Calls(ask)),
   visited : SUBSET DOMAIN ask.candidates,
   taker : [DOMAIN ask.candidates -> 0..Len(ask.slots)],
   given : [DOMAIN ask.slots -> 0..Len(ask.candidates)]]

(* One set of visited candidates for all slots.                            *)
EnterVisited(m, s) ==
  IF s = 0 THEN [m EXCEPT !.pc = "found", !.slot = 0]
  ELSE [m EXCEPT !.pc = "search", !.slot = s,
                 !.calls = <<[slot |-> s, at |-> 1]>>]

(* The loop over the slots comes to slot s; behind the first it ends.      *)
Enter(m, s) ==
  IF s = 0 THEN [m EXCEPT !.pc = "found", !.slot = 0]
  ELSE [m EXCEPT !.pc = "search", !.slot = s, !.visited = {},
                 !.calls = <<[slot |-> s, at |-> 1]>>]

FirstCall(ask) ==
  Enter([pc |-> "search", slot |-> 0, calls |-> <<>>, visited |-> {},
         taker |-> [k \in DOMAIN ask.candidates |-> 0],
         given |-> [s \in DOMAIN ask.slots |-> 0]], Len(ask.slots))

Innermost(m) == m.calls[Len(m.calls)]

Callers(m) == SubSeq(m.calls, 1, Len(m.calls) - 1)

(* The innermost call goes on with its next candidate.                     *)
GoesOn(m) == [m EXCEPT !.calls[Len(m.calls)].at = @ + 1]

(* The innermost call returns false; without a caller the search is over.  *)
GivesUp(m) ==
  IF Len(m.calls) = 1 THEN [m EXCEPT !.pc = "failed", !.calls = <<>>]
  ELSE GoesOn([m EXCEPT !.calls = Callers(m)])

(* It takes candidate k, who is free.                                      *)
Takes(m, k) == [m EXCEPT !.pc = "assign", !.visited = @ \cup {k}]

(* It asks the slot that has candidate k to take another: augment(previous) *)
Displaces(m, k) ==
  [m EXCEPT !.visited = @ \cup {k},
            !.calls = Append(@, [slot |-> m.taker[k], at |-> 1])]

(* It notes candidate k for its slot s and returns true.                   *)
Assigned(m, k, s) ==
  [m EXCEPT !.taker[k] = s, !.given[s] = k, !.calls = Callers(m)]

Assigns(m, k, s) ==
  IF Len(m.calls) = 1 THEN Enter(Assigned(m, k, s), s - 1)
  ELSE Assigned(m, k, s)

Step(ask, m) ==
  LET k == Innermost(m).at
      s == Innermost(m).slot
  IN
  CASE m.pc \in {"found", "failed"} -> m
    [] m.pc = "assign" -> Assigns(m, k, s)
    [] m.pc = "search" /\ k > Len(ask.candidates) -> GivesUp(m)
    [] m.pc = "search" /\ k \in DOMAIN ask.candidates
         /\ (k \in m.visited \/ ~Plays(ask, k, s)) -> GoesOn(m)
    [] m.pc = "search" /\ k \in DOMAIN ask.candidates \ m.visited
         /\ Plays(ask, k, s) /\ m.taker[k] = 0 -> Takes(m, k)
    [] m.pc = "search" /\ k \in DOMAIN ask.candidates \ m.visited
         /\ Plays(ask, k, s) /\ m.taker[k] # 0 -> Displaces(m, k)

(* The selection after n steps.                                            *)
After(ask) ==
  LET after[n \in Nat] ==
        IF n = 0 THEN FirstCall(ask) ELSE Step(ask, after[n - 1])
  IN after

(* No selection takes more steps: an outer slot takes at most StepsPerSlot. *)
StepsPerSlot(ask) == (Len(ask.candidates) + 1) * (Len(ask.candidates) + 2)

MaxSteps(ask) == (Len(ask.slots) + 1) * StepsPerSlot(ask)

(* selectRunAccounts(demands, candidates, leased), with the leased left out.*)
Selection(ask) == After(ask)[MaxSteps(ask)]
-----------------------------------------------------------------------------
(* What was asked for: every slot a candidate with its role, and no two the *)
(* same one.                                                               *)
Fits(ask, given) ==
  /\ given \in [DOMAIN ask.slots -> DOMAIN ask.candidates]
  /\ \A s \in DOMAIN ask.slots : Plays(ask, given[s], s)
  /\ \A s, t \in DOMAIN ask.slots : given[s] = given[t] => s = t

Possible(ask) ==
  \E given \in [DOMAIN ask.slots -> DOMAIN ask.candidates] : Fits(ask, given)

(* The selection comes to an end, finds an assignment exactly if there is  *)
(* one, and what it finds is one.                                          *)
FindsWhatThereIs(ask) ==
  /\ Selection(ask).pc \in {"found", "failed"}
  /\ Selection(ask).pc = "found" <=> Possible(ask)
  /\ Selection(ask).pc = "found" => Fits(ask, Selection(ask).given)

SeqsUpTo(S, n) == UNION {[1..k -> S] : k \in 0..n}

(* Every pool of up to three accounts that can play any of three roles, with *)
(* all demands of up to three slots.                                       *)
FindsInSmallPools ==
  \A slots \in SeqsUpTo(1..3, 3), candidates \in SeqsUpTo(SUBSET (1..3), 3) :
    FindsWhatThereIs([slots |-> slots, candidates |-> candidates])
=============================================================================
