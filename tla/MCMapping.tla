------------------------------ MODULE MCMapping ------------------------------
(***************************************************************************)
(* Small instances of Mapping.                                             *)
(*                                                                         *)
(* A behaviour lives one of three lives, chosen at the start: any two      *)
(* requests, with a trouble; three requests that import the mapping or     *)
(* edit its name, in which an edit strays; two retests, a retarget there   *)
(* and back and a disable, in which a verdict lands twice.                 *)
(***************************************************************************)
EXTENDS Mapping, Sequences

VARIABLE life

MCInit ==
    /\ Init
    /\ life \in {"any", "edits", "relands"}
    /\ life # "any" => row = Blank /\ requests = 0

\* The request that may come next.
Asks(a) ==
    \/ life = "any" /\ requests < 2 /\ Ask(a)
    \/ /\ life = "edits" /\ requests < 3
       /\ \/ \E name \in Names : Edit(a, name, "keep")
          \/ \E priced \in BOOLEAN : Requeue(a, priced)
    \/ life = "relands" /\ requests < 2 /\ Retest(a)
    \/ /\ life = "relands" /\ requests \in {2, 3}
       /\ \E name \in Names \ {row.name} : Edit(a, name, "keep")
    \/ life = "relands" /\ requests = 4 /\ Disable(a)

MCNext ==
    /\ UNCHANGED life
    /\ \/ Goes
       \/ life = "any" /\ Trouble
       \/ life = "relands" /\ \E a \in Actors : CommitUnheard(a)
       \/ \E a \in Admins : Asks(a)

MCSpec == MCInit /\ [][MCNext]_<<life, vars>>
-----------------------------------------------------------------------------
(* Stamps are only compared with each other and with 0, so two states that *)
(* differ by a renaming of their stamps have the same futures: of each     *)
(* stamp the view keeps the first place that holds an equal one.           *)

StampsOf(l) ==
    IF l.pc = "idle" THEN <<>>
    ELSE <<l.now, l.run, l.under.run, l.seen.tested, l.seen.updatedAt, l.seen.token.run>>
StampsOfRow == <<0, row.tested, row.armedAt, row.updatedAt, row.token.run>>
Pattern ==
    LET s == StampsOfRow \o StampsOf(at[1]) \o StampsOf(at[2])
                 \o StampsOf(at[3]) \o StampsOf(at[4]) \o StampsOf(at[5])
    IN  [i \in DOMAIN s |-> CHOOSE j \in 1 .. i : s[j] = s[i]]

RestOf(l) ==
    IF l.pc = "idle" THEN <<>>
    ELSE <<l.pc, l.op, l.stage, l.name, l.seen.name, l.seen.enabled, l.seen.verified,
           l.seen.armed, l.seen.token.rq, l.under.rq, l.mode, l.outcome, l.tries,
           l.overruled, l.landed>>
RestOfRow ==
    <<row.exists, row.name, row.enabled, row.verified, row.owed, row.armed, row.token.rq>>

UpToStamps == <<life, Pattern, RestOfRow, [a \in Actors |-> RestOf(at[a])],
                queue, timers, boot, counters, ghosts>>
=============================================================================
