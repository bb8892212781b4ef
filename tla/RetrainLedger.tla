---------------------------- MODULE RetrainLedger ----------------------------
(***************************************************************************)
(* What the retrain queue promises of each key, with no processes, no      *)
(* clocks and no failures of calls: an entry is granted to one worker at a *)
(* time, only its holder renews, judges or returns it, and each at most    *)
(* once per grant; its failure count is exact, and an entry called trained *)
(* has a model.                                                            *)
(***************************************************************************)
EXTENDS Integers

CONSTANTS Key, Worker, Nobody, NoEntry,
          MaxAttempts    \* bound: where the failure count stops growing

VARIABLES
  entry,   \* key -> NoEntry, or the entry's holder, failures and outcome
  owes,    \* worker -> key -> what it may still do about its last grant
  model    \* key -> whether a model is stored

Entry == [ holder   : Worker \cup {Nobody},
           lapsed   : BOOLEAN,              \* the grant ran out, or there is none
           failures : 0 .. MaxAttempts,
           trained  : BOOLEAN ]             \* a recent run succeeded

Duty == {"renew", "judge", "return"}

Blank == [holder |-> Nobody, lapsed |-> TRUE, failures |-> 0, trained |-> FALSE]

Present(k) == entry[k] # NoEntry

Becomes(k, e) == entry'[k] = e

Add(k) == ~Present(k) /\ Becomes(k, Blank)

Remove(k) == Present(k) /\ Becomes(k, NoEntry)

(* Nobody else holds the entry, or the grant ran out. *)
Grant(w, k) ==
  /\ Present(k)
  /\ entry[k].lapsed
  /\ Becomes(k, [entry[k] EXCEPT !.holder = w, !.lapsed = FALSE])
  /\ owes'[w][k] = Duty

(***************************************************************************)
(* The step is taken by worker w, on the grant it holds.                   *)
(***************************************************************************)
Sheds(w, k, duty) ==
  /\ Present(k)
  /\ entry[k].holder = w
  /\ duty \in owes[w][k] \ owes'[w][k]

Renew(w, k) == Sheds(w, k, "renew") /\ Becomes(k, [entry[k] EXCEPT !.lapsed = FALSE])

Lapse(k) == Present(k) /\ Becomes(k, [entry[k] EXCEPT !.lapsed = TRUE])

(* The holder gives the entry back: *)
HandBack(w, k, duty, failures, trained) ==
  /\ Sheds(w, k, duty)
  /\ Becomes(k, [holder |-> Nobody, lapsed |-> TRUE, failures |-> failures, trained |-> trained])

Succeed(w, k) == HandBack(w, k, "judge", 0, TRUE) /\ model'[k]

Fail(w, k) ==
  HandBack(w, k, "judge", IF entry[k].failures < MaxAttempts THEN entry[k].failures + 1
                          ELSE MaxAttempts, FALSE)

(* Unjudged, and with no judgement of it still to come. *)
Return(w, k) ==
  /\ HandBack(w, k, "return", entry[k].failures, FALSE)
  /\ "judge" \notin owes[w][k]

(* The last success is no longer recent. *)
Fade(k) == Present(k) /\ Becomes(k, [entry[k] EXCEPT !.trained = FALSE])

EntryMoves(k) ==
  \/ Becomes(k, entry[k]) \/ Add(k) \/ Remove(k) \/ Lapse(k) \/ Fade(k)
  \/ \E w \in Worker : Grant(w, k) \/ Renew(w, k) \/ Succeed(w, k) \/ Fail(w, k) \/ Return(w, k)

(* Only a grant gives a worker anything to do. *)
OwesMoves(w, k) == owes'[w][k] \subseteq owes[w][k] \/ Grant(w, k)

(* A model goes only with its entry, or when no recent success needs it. *)
ModelMoves(k) ==
  \/ model'[k]
  \/ model'[k] = model[k]
  \/ entry'[k] = NoEntry
  \/ ~entry[k].trained

Init == /\ entry = [k \in Key |-> NoEntry]
        /\ owes = [w \in Worker |-> [k \in Key |-> {}]]
        /\ model = [k \in Key |-> FALSE]

Next == /\ entry' \in [Key -> Entry \cup {NoEntry}]
        /\ owes' \in [Worker -> [Key -> SUBSET Duty]]
        /\ model' \in [Key -> BOOLEAN]
        /\ \A k \in Key : EntryMoves(k) /\ ModelMoves(k)
        /\ \A w \in Worker, k \in Key : OwesMoves(w, k)

Spec == Init /\ [][Next]_<<entry, owes, model>>
=============================================================================
