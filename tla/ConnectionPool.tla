--------------------------- MODULE ConnectionPool ---------------------------
(***************************************************************************)
(* The client's pool of transport connections, pkg/client/pool.go: the     *)
(* goroutine of maintain keeps MinIdle connections in the channel conns,   *)
(* Get takes one or dials, Close cancels, waits for maintain and drains.   *)
(*                                                                         *)
(* A connection belongs to whoever holds it: the channel, maintain, a call *)
(* of Get, or the caller that Get returned it to; only its holder closes   *)
(* it.  A connection that was closed, or that its caller is done with, may *)
(* stand for another one, so that behaviours need no bound.                *)
(*                                                                         *)
(* A definition set just before another one, with a name that says what is *)
(* wrong with it, is a faulty variant that the properties must catch.      *)
(***************************************************************************)
EXTENDS Naturals, FiniteSets

CONSTANTS Conns,    \* net.Conn values
          Getters,  \* goroutines that call Get
          MinIdle,  \* minIdle, the capacity of conns
          None

ASSUME PoolAssumption ==
    /\ MinIdle \in Nat \ {0}
    /\ IsFiniteSet(Conns)
    /\ None \notin Conns

VARIABLES
    conns,      \* the connections in the channel
    open,       \* the connections that are open
    closed,     \* p.closed
    cancelled,  \* p.ctx is done
    maintain,   \* where the goroutine of maintain is
    dialed,     \* the connection it has dialed
    get,        \* where each call of Get is
    got,        \* the connection each call has, or has returned
    closer      \* where the call of Close is

getVars == <<get, got>>
maintainVars == <<maintain, dialed>>
vars == <<conns, open, closed, cancelled, maintainVars, getVars, closer>>

TypeOK ==
    /\ conns \subseteq Conns
    /\ Cardinality(conns) <= MinIdle
    /\ open \subseteq Conns
    /\ closed \in BOOLEAN
    /\ cancelled \in BOOLEAN
    /\ maintain \in {"tick", "fill", "dial", "offer", "pause", "done"}
    /\ dialed \in Conns \cup {None}
    /\ get \in [Getters -> {"out", "select", "taken", "empty", "dial", "dialed", "using"}]
    /\ got \in [Getters -> Conns \cup {None}]
    /\ closer \in {"out", "cancel", "wait", "drain", "done"}
    /\ dialed # None <=> maintain = "offer"

Init ==
    /\ conns = {}
    /\ open = {}
    /\ closed = FALSE
    /\ cancelled = FALSE
    /\ maintain = "tick"
    /\ dialed = None
    /\ get = [g \in Getters |-> "out"]
    /\ got = [g \in Getters |-> None]
    /\ closer = "out"

-----------------------------------------------------------------------------
(* The goroutine of maintain.                                              *)

MaintainGoes(from, to) ==
    /\ maintain = from
    /\ maintain' = to
    /\ UNCHANGED <<conns, open, closed, cancelled, dialed, getVars, closer>>

(* The outer select; when both are ready either case is taken.             *)
Tick == MaintainGoes("tick", "fill")

TickCancelled == cancelled /\ MaintainGoes("tick", "done")

(* The test of the inner loop, and its check of ctx.                       *)
FillStopsShort == Cardinality(conns) + 1 >= MinIdle /\ MaintainGoes("fill", "tick")
FillEnough == Cardinality(conns) >= MinIdle /\ MaintainGoes("fill", "tick")

FillOneTooMany ==
    Cardinality(conns) <= MinIdle /\ ~cancelled /\ MaintainGoes("fill", "dial")
FillMore == Cardinality(conns) < MinIdle /\ ~cancelled /\ MaintainGoes("fill", "dial")

FillCancelled ==
    Cardinality(conns) < MinIdle /\ cancelled /\ MaintainGoes("fill", "done")

MaintainDials(c) ==
    /\ maintain = "dial"
    /\ c \notin open
    /\ open' = open \cup {c}
    /\ dialed' = c
    /\ maintain' = "offer"
    /\ UNCHANGED <<conns, closed, cancelled, getVars, closer>>

MaintainDialFails == MaintainGoes("dial", "pause")

PauseEnds == MaintainGoes("pause", "fill")

PauseCancelled == cancelled /\ MaintainGoes("pause", "done")

(* The connection is sent if there is room.  It is closed when there is    *)
(* none and, once ctx is done, possibly although there is room.            *)
OfferKeepsDialed ==
    /\ maintain = "offer"
    /\ Cardinality(conns) < MinIdle
    /\ conns' = conns \cup {dialed}
    /\ maintain' = "fill"
    /\ UNCHANGED <<open, dialed, closed, cancelled, getVars, closer>>
Offer ==
    /\ maintain = "offer"
    /\ Cardinality(conns) < MinIdle
    /\ conns' = conns \cup {dialed}
    /\ dialed' = None
    /\ maintain' = "fill"
    /\ UNCHANGED <<open, closed, cancelled, getVars, closer>>

OfferLeaks ==
    /\ maintain = "offer"
    /\ cancelled \/ Cardinality(conns) >= MinIdle
    /\ dialed' = None
    /\ maintain' = IF cancelled THEN "done" ELSE "fill"
    /\ UNCHANGED <<conns, open, closed, cancelled, getVars, closer>>
OfferCloses ==
    /\ maintain = "offer"
    /\ cancelled \/ Cardinality(conns) >= MinIdle
    /\ open' = open \ {dialed}
    /\ dialed' = None
    /\ maintain' = IF cancelled THEN "done" ELSE "fill"
    /\ UNCHANGED <<conns, closed, cancelled, getVars, closer>>

MaintainStep ==
    \/ Tick \/ TickCancelled
    \/ FillEnough \/ FillMore \/ FillCancelled
    \/ MaintainDialFails \/ PauseEnds \/ PauseCancelled
    \/ Offer \/ OfferCloses
    \/ \E c \in Conns : MaintainDials(c)

-----------------------------------------------------------------------------
(* A call of Get.                                                          *)

GetGoes(g, from, to) ==
    /\ get[g] = from
    /\ get' = [get EXCEPT ![g] = to]
    /\ UNCHANGED <<conns, open, closed, cancelled, maintainVars, got, closer>>

GetBegins(g) == ~closed /\ GetGoes(g, "out", "select")

GetTakes(g, c) ==
    /\ get[g] = "select"
    /\ c \in conns
    /\ conns' = conns \ {c}
    /\ got' = [got EXCEPT ![g] = c]
    /\ get' = [get EXCEPT ![g] = "taken"]
    /\ UNCHANGED <<open, closed, cancelled, maintainVars, closer>>

GetFindsEmpty(g) == conns = {} /\ GetGoes(g, "select", "empty")

GetEmptyClosed(g) == closed /\ GetGoes(g, "empty", "out")

GetEmptyOpen(g) == ~closed /\ GetGoes(g, "empty", "dial")

GetDials(g, c) ==
    /\ get[g] = "dial"
    /\ c \notin open
    /\ open' = open \cup {c}
    /\ got' = [got EXCEPT ![g] = c]
    /\ get' = [get EXCEPT ![g] = "dialed"]
    /\ UNCHANGED <<conns, closed, cancelled, maintainVars, closer>>

GetDialFails(g) == GetGoes(g, "dial", "out")

(* The check before a connection is returned, taken or dialed.             *)
GetReturns(g) == ~closed /\ \E from \in {"taken", "dialed"} : GetGoes(g, from, "using")

GivesBack(g) ==
    /\ open' = open \ {got[g]}
    /\ got' = [got EXCEPT ![g] = None]
    /\ get' = [get EXCEPT ![g] = "out"]
    /\ UNCHANGED <<conns, closed, cancelled, maintainVars, closer>>

GetRefuses(g) == get[g] \in {"taken", "dialed"} /\ closed /\ GivesBack(g)

(* The caller of Get closes its connection in its own time.                *)
CallerCloses(g) == get[g] = "using" /\ GivesBack(g)

GetStep(g) ==
    \/ GetFindsEmpty(g) \/ GetEmptyClosed(g) \/ GetEmptyOpen(g)
    \/ GetDialFails(g) \/ GetReturns(g) \/ GetRefuses(g)
    \/ \E c \in Conns : GetTakes(g, c) \/ GetDials(g, c)

-----------------------------------------------------------------------------
(* Close.                                                                  *)

CloseBegins ==
    /\ closer = "out"
    /\ closed' = TRUE
    /\ closer' = "cancel"
    /\ UNCHANGED <<conns, open, cancelled, maintainVars, getVars>>

CloseForgetsCancel ==
    /\ closer = "cancel"
    /\ closer' = "wait"
    /\ UNCHANGED <<conns, open, closed, cancelled, maintainVars, getVars>>
CloseCancels ==
    /\ closer = "cancel"
    /\ cancelled' = TRUE
    /\ closer' = "wait"
    /\ UNCHANGED <<conns, open, closed, maintainVars, getVars>>

(* wg.Wait returns when maintain has returned.                             *)
CloseDoesNotWait ==
    /\ closer = "wait"
    /\ closer' = "drain"
    /\ UNCHANGED <<conns, open, closed, cancelled, maintainVars, getVars>>
CloseWaits ==
    /\ closer = "wait"
    /\ maintain = "done"
    /\ closer' = "drain"
    /\ UNCHANGED <<conns, open, closed, cancelled, maintainVars, getVars>>

CloseDrains(c) ==
    /\ closer = "drain"
    /\ c \in conns
    /\ conns' = conns \ {c}
    /\ open' = open \ {c}
    /\ UNCHANGED <<closed, cancelled, maintainVars, getVars, closer>>

CloseReturns ==
    /\ closer = "drain"
    /\ conns = {}
    /\ closer' = "done"
    /\ UNCHANGED <<conns, open, closed, cancelled, maintainVars, getVars>>

CloseStep ==
    \/ CloseCancels \/ CloseWaits \/ CloseReturns
    \/ \E c \in Conns : CloseDrains(c)

-----------------------------------------------------------------------------
Next ==
    \/ MaintainStep
    \/ \E g \in Getters : GetBegins(g) \/ GetStep(g) \/ CallerCloses(g)
    \/ CloseBegins
    \/ CloseStep

Spec == Init /\ [][Next]_vars

(* Goroutines are scheduled, the ticker ticks, a dial returns (it has a    *)
(* timeout of ten seconds), and a select that keeps finding ctx.Done ready *)
(* takes it in the end.  Nothing is assumed of the callers of Get.         *)
Fairness ==
    /\ WF_vars(MaintainStep)
    /\ WF_vars(CloseStep)
    /\ \A g \in Getters : WF_vars(GetStep(g))
    /\ SF_vars(TickCancelled)

FairSpec == Spec /\ Fairness

-----------------------------------------------------------------------------
(* Properties.                                                             *)

Holding(g) == get[g] \in {"taken", "dialed", "using"}

(* An open connection has exactly one holder, so none is leaked, handed    *)
(* out twice or closed under the goroutine that uses it; and whatever a    *)
(* holder has is open.                                                     *)
OneHolder ==
    /\ \A c \in open :
           c \in conns \/ c = dialed \/ \E g \in Getters : Holding(g) /\ got[g] = c
    /\ conns \subseteq open
    /\ maintain = "offer" => dialed \in open \ conns
    /\ \A g \in Getters : Holding(g) =>
           /\ got[g] \in open \ (conns \cup {dialed})
           /\ \A h \in Getters : Holding(h) /\ got[h] = got[g] => h = g

(* When Close has returned the pool keeps nothing open, and never will:    *)
(* maintain is gone, and only calls of Get still have connections.         *)
ClosedPoolIsEmpty ==
    closer = "done" => conns = {} /\ dialed = None /\ maintain = "done"

(* maintain is the only sender, and calls of Get only make room: what it   *)
(* dials is never too much, and the branch that closes a connection        *)
(* because the pool is full is not reached.                                *)
DialedFits == maintain \in {"dial", "offer"} => Cardinality(conns) < MinIdle

(* Close returns: maintain notices the cancellation wherever it is.        *)
CloseTerminates == closer = "cancel" ~> closer = "done"

(* Again and again the pool is full, however long callers keep what they   *)
(* have: unless it is closed, dials of maintain keep failing, or calls of  *)
(* Get keep taking connections from it.                                    *)
KeptFull ==
    []<>(Cardinality(conns) = MinIdle \/ closed \/ maintain = "pause"
         \/ \E g \in Getters : get[g] = "taken")

-----------------------------------------------------------------------------
(* The inductive invariant: Close drains after maintain has ended.         *)
DrainsLast ==
    /\ closer \in {"drain", "done"} => maintain = "done"
    /\ closer = "done" => conns = {}

InductiveInvariant == TypeOK /\ OneHolder /\ DialedFits /\ DrainsLast

=============================================================================
