----------------------------- MODULE TCertPool ------------------------------
(***************************************************************************)
(* The pool of transaction certificates of a client (core/crypto/          *)
(* client_tcert_pool_*.go) with its key store and the transaction CA.      *)
(* Every transaction takes a certificate that no other transaction uses.   *)
(* The multi-threaded pool is a channel that a filler goroutine refills;   *)
(* the single-threaded one is an array.  Certificates that are left when   *)
(* the client is closed are kept in the key store for the next time.  The  *)
(* client is closed by its last user (client.go), hence with no getter at  *)
(* work.  Certificates are numbered in the order the TCA issues them.      *)
(***************************************************************************)
EXTENDS Integers, Sequences, FiniteSets, SequencesExt

CONSTANTS
  PoolKinds,          \* subset of {"mt", "st"}
  Getters,            \* goroutines that call GetNextTCert
  TCertBatchSize,     \* security.tcert.batch.size
  EmptyShare,         \* 10 in the code; smaller here, for a channel of a small capacity
  MaxIssued,          \* bound: certificates the TCA issues
  MaxPoolFaults       \* bound: failed calls, failed writes and crashes

(* A tenth of the capacity is at least one certificate: with batches of    *)
(* fewer than 5 the filler asks for none and an empty pool stays empty.    *)
ASSUME TCertBatchAssumption ==
  TCertBatchSize \in Nat \ {0} /\ EmptyShare \in 1..(2 * TCertBatchSize)

VARIABLES
  poolKind,
  tCerts,             \* the channel tCertChannel, or the array of the single-threaded pool
  feedback,           \* number of signals in tCertChannelFeedback
  filler,             \* "off", "load", "wait", "ask" or "add"; "on" for the single-threaded pool
  asked,              \* number of certificates that the filler asks for
  received,           \* certificates that it has received and not yet added
  unused,             \* table TCerts of the key store
  getter,             \* getter[g]: "idle", "waits", or "took" with a certificate in hand
  got,                \* got[g]: the certificate in the hand of g, or 0
  handed,             \* certificates returned by GetNextTCert
  issued,             \* number of certificates issued by the TCA
  kdfMem, kdfFile,    \* the KDF key is in memory, in the key store
  poolFaults

getterPart == <<getter, got, handed>>
poolVars == <<poolKind, tCerts, feedback, filler, asked, received, unused, getterPart, issued,
              kdfMem, kdfFile, poolFaults>>

Capacity == 2 * TCertBatchSize
Fault == poolFaults < MaxPoolFaults /\ poolFaults' = poolFaults + 1
Numbers(from, n) == [i \in 1..n |-> from + i]
Least(a, b) == IF a < b THEN a ELSE b

PoolInit ==
  /\ poolKind \in PoolKinds
  /\ tCerts = <<>> /\ feedback = 0 /\ filler = "off" /\ asked = 0 /\ received = <<>>
  /\ unused = <<>>
  /\ getter = [g \in Getters |-> "idle"]
  /\ got = [g \in Getters |-> 0] /\ handed = {}
  /\ issued = 0 /\ kdfMem = FALSE /\ kdfFile = FALSE /\ poolFaults = 0

(***************************************************************************)
(* The transaction CA.                                                     *)
(***************************************************************************)
(* CreateCertificateSet issues num certificates, and one when num is 0.    *)
CreateCertificateSet(num) == Numbers(issued, IF num = 0 THEN 1 ELSE num)

(* getTCertsFromTCA: the key of the set becomes the key of the client when *)
(* it has none, and the first num certificates are validated and used; no  *)
(* valid one is an error.                                                  *)
getTCertsFromTCA(num, certs) == SubSeq(certs, 1, Least(num, Len(certs)))

(* The call returns certs, none of them being an error.  It fails once the *)
(* bound is reached.  Before, it ends in one of three ways: the TCA or the *)
(* network fails (certificates that the TCA has issued by then are lost),  *)
(* the first KDF key cannot be stored and stays in memory only, or the     *)
(* certificates are there.                                                 *)
TCAAnswers(num) == {<<>>, getTCertsFromTCA(num, CreateCertificateSet(num))}
callTCA(num, certs) ==
  LET set == CreateCertificateSet(num)
  IN \/ /\ issued + Len(set) > MaxIssued /\ certs = <<>>
        /\ UNCHANGED <<issued, kdfMem, kdfFile, poolFaults>>
     \/ /\ Fault /\ certs = <<>>
        /\ issued' \in issued..Least(MaxIssued, issued + Len(set))
        /\ UNCHANGED <<kdfMem, kdfFile>>
     \/ /\ issued + Len(set) <= MaxIssued
        /\ issued' = issued + Len(set)
        /\ kdfMem' = TRUE
        /\ \/ ~kdfMem /\ Fault /\ UNCHANGED kdfFile /\ certs = <<>>
           \/ /\ kdfFile' = (kdfMem => kdfFile) /\ UNCHANGED poolFaults
              /\ certs = getTCertsFromTCA(num, set)

(***************************************************************************)
(* The multi-threaded pool.                                                *)
(***************************************************************************)
Filling == UNCHANGED <<poolKind, getterPart>>

loadTCertOwnerKDFKey == kdfMem' = kdfFile

(* A certificate from the key store is checked, and its secret key is      *)
(* derived, with the KDF key.                                              *)
getTCertFromDER(kdf) == kdf

(* Does not delete the row it has read.                                    *)
loadUnusedTCertKeeps == unused

(* What the table holds once its first row has been read and deleted.      *)
loadUnusedTCert == Tail(unused)

(* initTCertEngine loads the KDF key if there is one and starts the pool.  *)
StartFiller ==
  /\ poolKind = "mt" /\ filler = "off"
  /\ filler' = "load" /\ loadTCertOwnerKDFKey
  /\ Filling /\ UNCHANGED <<tCerts, feedback, asked, received, unused, issued, kdfFile, poolFaults>>

(* The filler takes a row out of the table and puts it into the channel.   *)
(* It drops one that cannot be parsed for want of the KDF key, and the one *)
(* that finds the channel full.  A failing database ends the loading.      *)
LoadUnused ==
  /\ filler = "load"
  /\ \/ /\ unused = <<>> /\ filler' = "wait"
        /\ UNCHANGED <<tCerts, unused, poolFaults>>
     \/ /\ unused # <<>> /\ Fault /\ filler' = "wait"
        /\ UNCHANGED <<tCerts, unused>>
     \/ /\ unused # <<>> /\ unused' = loadUnusedTCert
        /\ LET fits == Len(tCerts) < Capacity
           IN /\ tCerts' = IF getTCertFromDER(kdfMem) /\ fits THEN Append(tCerts, Head(unused)) ELSE tCerts
              /\ filler' = IF getTCertFromDER(kdfMem) /\ ~fits THEN "wait" ELSE "load"
        /\ UNCHANGED poolFaults
  /\ Filling /\ UNCHANGED <<feedback, asked, received, issued, kdfMem, kdfFile>>

(* Woken by a signal or by its ticker, the filler asks for certificates    *)
(* when fewer than a batch are left: for as many as the channel can take,  *)
(* but for a tenth of its capacity when it is empty.                       *)
Refill == IF tCerts = <<>> THEN Capacity \div EmptyShare ELSE Capacity - Len(tCerts)

(* Waits for a signal only, without the ticker.                            *)
WakeFillerSignalled ==
  /\ filler = "wait" /\ feedback > 0
  /\ feedback' = feedback - 1
  /\ IF Len(tCerts) < TCertBatchSize THEN filler' = "ask" /\ asked' = Refill ELSE UNCHANGED <<filler, asked>>
  /\ Filling /\ UNCHANGED <<tCerts, received, unused, issued, kdfMem, kdfFile, poolFaults>>

WakeFiller ==
  /\ filler = "wait"
  /\ feedback' \in {feedback, feedback - 1} \cap Nat
  /\ IF Len(tCerts) < TCertBatchSize
       THEN filler' = "ask" /\ asked' = Refill
       ELSE feedback' # feedback /\ UNCHANGED <<filler, asked>>
  /\ Filling /\ UNCHANGED <<tCerts, received, unused, issued, kdfMem, kdfFile, poolFaults>>

FillerCallsTCA ==
  /\ filler = "ask"
  /\ \E certs \in TCAAnswers(asked) :
       /\ callTCA(asked, certs)
       /\ filler' = IF certs = <<>> THEN "wait" ELSE "add"
       /\ received' = certs
  /\ Filling /\ UNCHANGED <<tCerts, feedback, asked, unused>>

(* AddTCert waits for room in the channel.                                 *)
AddTCert ==
  /\ filler = "add" /\ Len(tCerts) < Capacity
  /\ tCerts' = Append(tCerts, Head(received))
  /\ received' = Tail(received)
  /\ filler' = IF Len(received) = 1 THEN "wait" ELSE "add"
  /\ Filling /\ UNCHANGED <<feedback, asked, unused, issued, kdfMem, kdfFile, poolFaults>>

storeUnusedTCerts(certs) ==
  \/ unused' = unused \o certs /\ UNCHANGED poolFaults
  \/ certs # <<>> /\ Fault /\ UNCHANGED unused

PoolIdle == \A g \in Getters : getter[g] = "idle"

(* Stop hands its signal to the filler, empties the channel and stores     *)
(* what was in it.                                                         *)
StopFiller ==
  /\ poolKind = "mt" /\ filler \in {"load", "wait"} /\ PoolIdle
  /\ filler' = "off"
  /\ storeUnusedTCerts(tCerts)
  /\ tCerts' = <<>> /\ feedback' = 0 /\ kdfMem' = FALSE
  /\ Filling /\ UNCHANGED <<asked, received, issued, kdfFile>>

(* GetNextTCert waits for a certificate, three times for 30 seconds: it    *)
(* takes one, or gives up while the channel is empty, ...                  *)
GetNextTCert(g) ==
  /\ poolKind = "mt" /\ filler # "off" /\ getter[g] = "idle"
  /\ getter' = [getter EXCEPT ![g] = "waits"]
  /\ UNCHANGED <<poolKind, tCerts, feedback, filler, asked, received, unused, got, handed, issued,
                 kdfMem, kdfFile, poolFaults>>

TakeTCert(g) ==
  /\ getter[g] = "waits"
  /\ \/ /\ tCerts # <<>>
        /\ tCerts' = Tail(tCerts) /\ got' = [got EXCEPT ![g] = Head(tCerts)]
        /\ getter' = [getter EXCEPT ![g] = "took"]
     \/ /\ tCerts = <<>>
        /\ getter' = [getter EXCEPT ![g] = "idle"]
        /\ UNCHANGED <<tCerts, got>>
  /\ UNCHANGED <<poolKind, feedback, filler, asked, received, unused, handed, issued, kdfMem,
                 kdfFile, poolFaults>>

(* ... signals the filler, which waits for room in the feedback channel,   *)
(* records the certificate as used and returns it.                         *)
ReturnTCert(g) ==
  /\ getter[g] = "took" /\ feedback < Capacity
  /\ feedback' = feedback + 1
  /\ handed' = handed \cup {got[g]}
  /\ got' = [got EXCEPT ![g] = 0] /\ getter' = [getter EXCEPT ![g] = "idle"]
  /\ UNCHANGED <<poolKind, tCerts, filler, asked, received, unused, issued, kdfMem, kdfFile,
                 poolFaults>>

(***************************************************************************)
(* The single-threaded pool, whose operations hold its mutex.              *)
(***************************************************************************)
(* Start takes all rows out of the table, or calls the TCA when there are  *)
(* none; a failure of that call is not reported.                           *)
StartArray ==
  /\ poolKind = "st" /\ filler = "off"
  /\ filler' = "on"
  /\ IF unused = <<>>
       THEN \E certs \in TCAAnswers(TCertBatchSize) : callTCA(TCertBatchSize, certs) /\ tCerts' = certs
       ELSE /\ loadTCertOwnerKDFKey
            /\ tCerts' = IF getTCertFromDER(kdfFile) THEN unused ELSE <<>>
            /\ UNCHANGED <<issued, kdfFile, poolFaults>>
  /\ unused' = <<>>
  /\ Filling /\ UNCHANGED <<feedback, asked, received>>

(* GetNextTCert calls the TCA when the array is empty and returns the last *)
(* certificate.                                                            *)
GetLastTCert ==
  LET take(certs) == tCerts' = Front(certs) /\ handed' = handed \cup {Last(certs)}
  IN /\ filler = "on"
     /\ IF tCerts = <<>>
          THEN \E certs \in TCAAnswers(TCertBatchSize) :
                 /\ callTCA(TCertBatchSize, certs)
                 /\ IF certs = <<>> THEN UNCHANGED <<tCerts, handed>> ELSE take(certs)
          ELSE take(tCerts) /\ UNCHANGED <<issued, kdfMem, kdfFile, poolFaults>>
     /\ UNCHANGED <<poolKind, feedback, filler, asked, received, unused, getter, got>>

StopArray ==
  /\ filler = "on"
  /\ filler' = "off" /\ tCerts' = <<>> /\ kdfMem' = FALSE
  /\ storeUnusedTCerts(tCerts)
  /\ Filling /\ UNCHANGED <<feedback, asked, received, issued, kdfFile>>

CrashClient ==
  /\ filler # "off" /\ Fault
  /\ filler' = "off" /\ tCerts' = <<>> /\ feedback' = 0 /\ received' = <<>> /\ kdfMem' = FALSE
  /\ getter' = [g \in Getters |-> "idle"] /\ got' = [g \in Getters |-> 0]
  /\ UNCHANGED <<poolKind, asked, unused, handed, issued, kdfFile>>

PoolNext ==
  \/ StartFiller \/ LoadUnused \/ WakeFiller \/ FillerCallsTCA \/ AddTCert \/ StopFiller
  \/ \E g \in Getters : GetNextTCert(g) \/ TakeTCert(g) \/ ReturnTCert(g)
  \/ StartArray \/ GetLastTCert \/ StopArray \/ CrashClient

(* The filler is a goroutine of its own with a ticker: it always goes on.  *)
PoolFairness ==
  /\ WF_poolVars(LoadUnused) /\ WF_poolVars(WakeFiller)
  /\ WF_poolVars(FillerCallsTCA) /\ WF_poolVars(AddTCert)

PoolSpec == PoolInit /\ [][PoolNext]_poolVars /\ PoolFairness

(***************************************************************************)
(* Properties.                                                             *)
(***************************************************************************)
Certs == 1..MaxIssued

PoolTypeOK ==
  /\ poolKind \in PoolKinds
  /\ tCerts \in Seq(Certs) /\ Len(tCerts) <= Capacity
  /\ feedback \in 0..Capacity
  /\ filler \in {"off", "load", "wait", "ask", "add", "on"}
  /\ asked \in 0..Capacity /\ received \in Seq(Certs) /\ unused \in Seq(Certs)
  /\ getter \in [Getters -> {"idle", "waits", "took"}]
  /\ got \in [Getters -> 0..MaxIssued]
  /\ handed \subseteq Certs /\ issued \in 0..MaxIssued
  /\ kdfMem \in BOOLEAN /\ kdfFile \in BOOLEAN /\ poolFaults \in 0..MaxPoolFaults

Places == tCerts \o received \o unused
InHand == handed \cup ({got[g] : g \in Getters} \ {0})

(* A transaction certificate is in one place only: it is handed to one     *)
(* caller of GetNextTCert, once, over closings of the client, crashes and  *)
(* failed writes (client_tcert_pool_mt.go:65, client_ks.go:loadUnusedTCert *)
(* deletes the row before the certificate can be used).                    *)
TCertUsedOnce ==
  /\ \A i, j \in DOMAIN Places : Places[i] = Places[j] => i = j
  /\ InHand \cap Range(Places) = {}
  /\ \A g, h \in Getters : got[g] # 0 => got[g] \notin handed /\ (got[g] = got[h] => g = h)

(* As long as nothing has failed, no certificate that the TCA has issued   *)
(* to the client is lost: closing the client stores what is left, and the  *)
(* next filler has room for all it loads (client_tcert_pool_mt.go:147, the *)
(* branch for a full channel, is not taken).                               *)
TCertsKept == poolFaults = 0 => 1..issued \subseteq Range(Places) \cup InHand

(* A filler that finds its channel empty fills it, unless it is stopped or *)
(* the TCA fails (client_tcert_pool_mt.go:184).                            *)
PoolRefilled ==
  (filler = "wait" /\ tCerts = <<>>)
    ~> (tCerts # <<>> \/ filler = "off" \/ poolFaults > 0 \/ issued + Capacity \div EmptyShare > MaxIssued)
=============================================================================
