------------------------- MODULE CertReloaderProofs -------------------------
(***************************************************************************)
(* Proofs about the certificate reloader, for any number of replacements   *)
(* of the files.                                                           *)
(***************************************************************************)
EXTENDS CertReloader, TLAPS

(* The pair NewCertReloader loaded is on disk.                             *)
LEMMA InitInv == Init => InductiveInvariant
  <1> SUFFICES ASSUME Init PROVE InductiveInvariant
    OBVIOUS
  <1>1. 1 \in Versions /\ 0 \in 0..(MaxVersion + 1)
    BY CertAssumption DEF Versions
  <1>2. TypeOK
    BY <1>1 DEF Init, TypeOK, Times
  <1>3. LastGoodStays
    BY DEF Init, LastGoodStays
  <1>4. ReadFromDisk
    BY DEF Init, ReadFromDisk
  <1>5. QED
    BY <1>2, <1>3, <1>4 DEF InductiveInvariant

(* Every read, stat, store and replacement keeps the invariant.            *)
LEMMA StepInv == InductiveInvariant /\ [Next]_vars => InductiveInvariant'
  <1> SUFFICES ASSUME InductiveInvariant, [Next]_vars
               PROVE  InductiveInvariant'
    OBVIOUS
  <1> USE CertAssumption
      DEF InductiveInvariant, TypeOK, LastGoodStays, ReadFromDisk, Versions, Times, Goes, files
  <1>1. CASE ReplaceCert
    <2>1. certFile' \in Versions /\ UNCHANGED <<keyFile, cert, last, seen, pc, read, pending>>
      BY <1>1 DEF ReplaceCert
    <2>2. \A v : v \in 1..certFile => v \in 1..certFile'
      BY <1>1 DEF ReplaceCert
    <2>3. TypeOK'
      BY <1>1, <2>1 DEF ReplaceCert
    <2>4. LastGoodStays' /\ ReadFromDisk'
      BY <2>1, <2>2
    <2>5. QED
      BY <2>3, <2>4
  <1>2. CASE ReplaceKey
    <2>1. keyFile' \in Versions /\ UNCHANGED <<certFile, cert, last, seen, pc, read, pending>>
      BY <1>2 DEF ReplaceKey
    <2>2. \A v : v \in 1..keyFile => v \in 1..keyFile'
      BY <1>2 DEF ReplaceKey
    <2>3. TypeOK'
      BY <1>2, <2>1 DEF ReplaceKey
    <2>4. LastGoodStays' /\ ReadFromDisk'
      BY <2>1, <2>2
    <2>5. QED
      BY <2>3, <2>4
  <1>3. CASE SendSignal
    BY <1>3 DEF SendSignal
  <1>4. CASE StatCert
    BY <1>4 DEF StatCert, Reloaders
  <1>5. CASE StatKeyFirst
    BY <1>5 DEF StatKeyFirst, Reloaders
  <1>6. CASE StatKey
    BY <1>6 DEF StatKey, Reloaders
  <1>7. CASE TakeSignal
    BY <1>7 DEF TakeSignal, Reloaders
  <1>8. ASSUME NEW r \in Reloaders, ReadCert(r)
        PROVE  InductiveInvariant'
    BY <1>8 DEF ReadCert
  <1>9. ASSUME NEW r \in Reloaders, ReadKey(r)
        PROVE  InductiveInvariant'
    BY <1>9 DEF ReadKey
  <1>10. ASSUME NEW r \in Reloaders, ReloadFails(r)
         PROVE  InductiveInvariant'
    BY <1>10 DEF ReloadFails
  <1>11. ASSUME NEW r \in Reloaders, Store(r)
         PROVE  InductiveInvariant'
    BY <1>11 DEF Store
  <1>12. CASE UNCHANGED vars
    BY <1>12 DEF vars
  <1>13. QED
    BY <1>1, <1>2, <1>3, <1>4, <1>5, <1>6, <1>7, <1>8, <1>9, <1>10, <1>11, <1>12
       DEF Next, PollStep, HupStep, ReloadStep, Reloaders

(* InductiveInvariant holds throughout.                                    *)
LEMMA Invariance == Spec => []InductiveInvariant
  BY InitInv, StepInv, PTL DEF Spec

(* Every reachable state is well typed: r.cert is never nil.               *)
THEOREM TypeCorrect == Spec => []TypeOK
  <1>1. InductiveInvariant => TypeOK
    BY DEF InductiveInvariant
  <1>2. QED
    BY Invariance, <1>1, PTL

(* A bad reload is ignored: GetCertificate answers with a matching pair    *)
(* that has been on disk, however reads, stores and replacements           *)
(* interleave.                                                             *)
THEOREM AlwaysGood == Spec => []LastGoodStays
  <1>1. InductiveInvariant => LastGoodStays
    BY DEF InductiveInvariant
  <1>2. QED
    BY Invariance, <1>1, PTL

=============================================================================
