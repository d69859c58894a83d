----------------------------- MODULE KeyRecord -----------------------------
(***************************************************************************)
(* One record of the gateway's key pool (internal/gateway/keypool.go): what *)
(* the pool remembers about one provider key, and what each verdict about  *)
(* that key does to it.                                                    *)
(*                                                                         *)
(* Times are readings of the pool's clock, which starts at 1; 0 is Go's    *)
(* zero time.  A credential is named by its config_version, and the blank  *)
(* record of credential 0, older than any, stands for a key the pool has   *)
(* no record of.                                                           *)
(***************************************************************************)
EXTENDS Naturals

Blank(cfg) == [cfg |-> cfg, benchUntil |-> 0, benchInstalled |-> 0,
               limitedAt |-> 0, invalidatedAt |-> 0, recoveredAt |-> 0]

Unknown == Blank(0)

Benched(s) == s.benchUntil # 0

DropBench(s) == [s EXCEPT !.benchUntil = 0, !.benchInstalled = 0]

\* stateFor: where a verdict on credential cfg finds the record. A verdict on
\* an older credential than the record's finds none.
Hears(s, cfg) == cfg >= s.cfg

\* Bug: the new credential inherits what was known about the old one.
StateForInherits(s, cfg) == [s EXCEPT !.cfg = cfg]

StateFor(s, cfg) == IF cfg = s.cfg THEN s ELSE Blank(cfg)
-----------------------------------------------------------------------------
\* Bug: a retest leaves no mark, so a straggler re-benches the key.
NewerButInvalidated(s, at) == at > s.recoveredAt /\ at > s.limitedAt

\* A 429 dispatched at this time is newer than every fact against it.
NewerThanAll(s, at) == /\ at > s.invalidatedAt
                       /\ at > s.recoveredAt
                       /\ at > s.limitedAt

\* coolKey: a 429 benches the key for d.
CoolKey(s, cfg, at, d, now) ==
    LET t == StateFor(s, cfg) IN
    IF d = 0 \/ ~Hears(s, cfg) THEN s
    ELSE IF NewerThanAll(t, at)
    THEN [t EXCEPT !.benchUntil = now + d, !.benchInstalled = now, !.limitedAt = at]
    ELSE t

\* The verdict that owns the standing bench, or a newer one.
OwnsBench(s, at) == /\ Benched(s)
                    /\ at > s.invalidatedAt
                    /\ at > s.recoveredAt
                    /\ at >= s.limitedAt

\* lengthenKeyBench: the body of the same 429 names a longer window.
LengthenKeyBench(s, cfg, at, d, now) ==
    LET t == StateFor(s, cfg) IN
    IF d = 0 \/ ~Hears(s, cfg) THEN s
    ELSE IF OwnsBench(t, at) /\ now + d > t.benchUntil
    THEN [t EXCEPT !.benchUntil = now + d]
    ELSE t

\* Bug: a late drop counts as of now and ends the bench whatever it is.
EndsAny(s, observedAt) == Benched(s)

\* The bench a rejection observed at this time puts an end to.
Ends(s, observedAt) == Benched(s) /\ s.limitedAt <= observedAt

\* dropKey: the key left rotation for the retest path.
DropKey(s, cfg, observedAt) ==
    LET t == StateFor(s, cfg)
        u == [t EXCEPT !.invalidatedAt = IF observedAt > @ THEN observedAt ELSE @] IN
    IF ~Hears(s, cfg) THEN s
    ELSE IF Ends(t, observedAt) THEN DropBench(u) ELSE u

\* Bug: a success releases whatever bench it finds.
ReleasesAny(s, at) == Benched(s)

\* The bench a success dispatched at this time releases.
Releases(s, at) == Benched(s) /\ at > s.benchInstalled

\* clearKey: the upstream accepted the key.
ClearKey(s, cfg, at) ==
    LET t == StateFor(s, cfg)
        u == [t EXCEPT !.recoveredAt = IF at > @ THEN at ELSE @] IN
    IF ~Hears(s, cfg) THEN s
    ELSE IF Releases(t, at) THEN DropBench(u) ELSE u

\* The bench is of an older credential, or has run out.
Expired(s, cfg, now) == \/ s.cfg < cfg
                        \/ s.cfg = cfg /\ s.benchUntil <= now

\* walkOrder's look at one key. A walk with an older key list prunes nothing.
Pruned(s, cfg, now) ==
    IF Benched(s) /\ Expired(s, cfg, now) THEN DropBench(s) ELSE s

=============================================================================
