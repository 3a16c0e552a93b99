---------------------------- MODULE CertReloader ----------------------------
(***************************************************************************)
(* Hot reload of a TLS certificate: CertReloader of                        *)
(* pkg/server/tls_reloader.go, and clientCertReloader of                   *)
(* pkg/client/client.go, which is the same code under other names.         *)
(*                                                                         *)
(* Someone replaces the two files, one after the other.  Two goroutines    *)
(* call Reload: the poller of WatchFiles when a modification time has      *)
(* grown, and the one of WatchSignals for each SIGHUP.  Reload reads the   *)
(* certificate, then the key, and stores them if they belong together; mu  *)
(* covers only the store.  Each read, stat and store is an action.         *)
(*                                                                         *)
(* Files are numbered by the replacement they come from, and a later file  *)
(* has a later modification time, so the number stands for both.  A file   *)
(* that is malformed is one that does not match.  A stat that fails skips  *)
(* the tick and is a stuttering step.                                      *)
(*                                                                         *)
(* A definition set just before another one, with a name that says what is *)
(* wrong with it, is a faulty variant that the properties must catch.      *)
(***************************************************************************)
EXTENDS Naturals

CONSTANTS MaxVersion,   \* bound: replacements of the pair
          Signals,      \* TRUE if SIGHUPs are sent
          EarlyChange,  \* TRUE if files may change before the first tick
          None

ASSUME CertAssumption ==
    /\ MaxVersion \in Nat
    /\ Signals \in BOOLEAN
    /\ EarlyChange \in BOOLEAN
    /\ None \notin Nat

Reloaders == {"poll", "hup"}
Versions == 1..(MaxVersion + 1)

VARIABLES
    certFile,  \* the certificate on disk
    keyFile,   \* the key on disk
    cert,      \* r.cert, what handshakes are served
    last,      \* lastCertMod and lastKeyMod; 0 is the zero time
    seen,      \* the modification times of the current tick
    pc,        \* where the two goroutines are
    read,      \* the certificate each Reload has read
    pending,   \* a signal is in sigChan
    hup        \* history: a SIGHUP was sent since the files last changed

files == <<certFile, keyFile>>
vars == <<files, cert, last, seen, pc, read, pending, hup>>

Times == [cert : 0..(MaxVersion + 1), key : 0..(MaxVersion + 1)]

TypeOK ==
    /\ certFile \in Versions
    /\ keyFile \in Versions
    /\ cert \in Versions
    /\ last \in Times
    /\ seen \in Times
    /\ pc \in [Reloaders -> {"idle", "statKey", "cert", "key", "store"}]
    /\ read \in [Reloaders -> Versions \cup {None}]
    /\ pending \in BOOLEAN
    /\ hup \in BOOLEAN

(* NewCertReloader has loaded the first pair.                              *)
Init ==
    /\ certFile = 1
    /\ keyFile = 1
    /\ cert = 1
    /\ last = [cert |-> 0, key |-> 0]
    /\ seen = [cert |-> 0, key |-> 0]
    /\ pc = [r \in Reloaders |-> "idle"]
    /\ read = [r \in Reloaders |-> None]
    /\ pending = FALSE
    /\ hup = FALSE

Goes(r, to) == pc' = [pc EXCEPT ![r] = to]

-----------------------------------------------------------------------------
(* The files and the signal.                                               *)

MayChange == EarlyChange \/ last.cert # 0

ReplaceCert ==
    /\ MayChange
    /\ certFile \in 1..keyFile
    /\ certFile <= MaxVersion
    /\ certFile' = certFile + 1
    /\ hup' = FALSE
    /\ UNCHANGED <<keyFile, cert, last, seen, pc, read, pending>>

ReplaceKey ==
    /\ MayChange
    /\ keyFile \in 1..certFile
    /\ keyFile <= MaxVersion
    /\ keyFile' = keyFile + 1
    /\ hup' = FALSE
    /\ UNCHANGED <<certFile, cert, last, seen, pc, read, pending>>

(* signal.Notify does not wait for room in sigChan.                        *)
SendSignalUnbuffered ==
    /\ Signals
    /\ pending' = (pc["hup"] = "idle")
    /\ hup' = TRUE
    /\ UNCHANGED <<files, cert, last, seen, pc, read>>
SendSignal ==
    /\ Signals
    /\ pending' = TRUE
    /\ hup' = TRUE
    /\ UNCHANGED <<files, cert, last, seen, pc, read>>

-----------------------------------------------------------------------------
(* A tick of WatchFiles.                                                   *)

StatCert ==
    /\ pc["poll"] = "idle"
    /\ seen' = [seen EXCEPT !.cert = certFile]
    /\ Goes("poll", "statKey")
    /\ UNCHANGED <<files, cert, last, read, pending, hup>>

StatKeyFirst ==
    /\ pc["poll"] = "statKey"
    /\ last.cert = 0
    /\ seen' = [seen EXCEPT !.key = keyFile]
    /\ last' = seen'
    /\ Goes("poll", "idle")
    /\ UNCHANGED <<files, cert, read, pending, hup>>

StatKey ==
    /\ pc["poll"] = "statKey"
    /\ last.cert # 0
    /\ seen' = [seen EXCEPT !.key = keyFile]
    /\ Goes("poll", IF seen.cert > last.cert \/ keyFile > last.key THEN "cert" ELSE "idle")
    /\ UNCHANGED <<files, cert, last, read, pending, hup>>

(* The goroutine of WatchSignals receives from sigChan.                    *)
TakeSignal ==
    /\ pc["hup"] = "idle"
    /\ pending
    /\ pending' = FALSE
    /\ Goes("hup", "cert")
    /\ UNCHANGED <<files, cert, last, seen, read, hup>>

-----------------------------------------------------------------------------
(* Reload.                                                                 *)

ReadCert(r) ==
    /\ pc[r] = "cert"
    /\ read' = [read EXCEPT ![r] = certFile]
    /\ Goes(r, "key")
    /\ UNCHANGED <<files, cert, last, seen, pending, hup>>

ReadKeyUnchecked(r) ==
    /\ pc[r] = "key"
    /\ Goes(r, "store")
    /\ UNCHANGED <<files, cert, last, seen, read, pending, hup>>
ReadKey(r) ==
    /\ pc[r] = "key"
    /\ keyFile = read[r]
    /\ Goes(r, "store")
    /\ UNCHANGED <<files, cert, last, seen, read, pending, hup>>

(* The pair does not match: Reload returns an error and stores nothing.    *)
ReloadBlanks(r) ==
    /\ pc[r] = "key"
    /\ keyFile # read[r]
    /\ cert' = None
    /\ Goes(r, "idle")
    /\ UNCHANGED <<files, last, seen, read, pending, hup>>
ReloadFails(r) ==
    /\ pc[r] = "key"
    /\ keyFile # read[r]
    /\ Goes(r, "idle")
    /\ UNCHANGED <<files, cert, last, seen, read, pending, hup>>

(* The pair is stored; the poller then remembers the times it has seen.    *)
StoreStatsAgain(r) ==
    /\ pc[r] = "store"
    /\ cert' = read[r]
    /\ last' = IF r = "poll" THEN [cert |-> certFile, key |-> keyFile] ELSE last
    /\ Goes(r, "idle")
    /\ UNCHANGED <<files, seen, read, pending, hup>>
Store(r) ==
    /\ pc[r] = "store"
    /\ cert' = read[r]
    /\ last' = IF r = "poll" THEN seen ELSE last
    /\ Goes(r, "idle")
    /\ UNCHANGED <<files, seen, read, pending, hup>>

ReloadStep(r) == ReadCert(r) \/ ReadKey(r) \/ ReloadFails(r) \/ Store(r)

-----------------------------------------------------------------------------
PollStep == StatCert \/ StatKeyFirst \/ StatKey \/ ReloadStep("poll")

HupStep == TakeSignal \/ ReloadStep("hup")

Next == ReplaceCert \/ ReplaceKey \/ SendSignal \/ PollStep \/ HupStep

Spec == Init /\ [][Next]_vars

(* The ticker ticks and both goroutines are scheduled.  Nothing is assumed *)
(* of the files or of signals.                                             *)
FairSpec == Spec /\ WF_vars(PollStep) /\ WF_vars(HupStep)

-----------------------------------------------------------------------------
(* Properties.                                                             *)

(* What is served is a pair, both files of which have been on disk: a bad  *)
(* or half-done replacement leaves the last good certificate in place.     *)
LastGoodStays == cert \in 1..certFile /\ cert \in 1..keyFile

(* When the files come to rest as a pair, that pair is served from some    *)
(* time on.                                                                *)
ChangePickedUp == <>[](certFile = keyFile) => <>[](cert = certFile)

(* The same, but only if no SIGHUP was ever sent and the files did not     *)
(* change before the poller's first tick was over: the poller alone picks  *)
(* up every later change, whatever it reads half replaced.                 *)
PollPickedUp ==
    []~hup /\ [](last.cert = 0 => certFile = 1 /\ keyFile = 1) => ChangePickedUp

(* When they come to rest as a pair and a SIGHUP follows, that pair is     *)
(* served from some time on, whatever the poller is doing.                 *)
SignalPickedUp == <>[](certFile = keyFile /\ hup) => <>[](cert = certFile)

-----------------------------------------------------------------------------
(* The inductive invariant: what a Reload has read was on disk.            *)
ReadFromDisk ==
    \A r \in Reloaders :
        /\ pc[r] \in {"key", "store"} => read[r] \in 1..certFile
        /\ pc[r] = "store" => read[r] \in 1..keyFile

InductiveInvariant == TypeOK /\ LastGoodStays /\ ReadFromDisk

=============================================================================
