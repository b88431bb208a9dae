---------------------------- MODULE PartDownload ----------------------------
(***************************************************************************)
(* The downloads of TransferManager (packages/stratus): the functions of   *)
(* generatePartDownloaders(), which the application calls in any order and *)
(* calls again when a stream fails, the retries of #getObjectPart(), whose *)
(* streams nobody gets, and getIterableObject().  The object, external, is *)
(* named without a version, and may be overwritten at any time.            *)
(***************************************************************************)
EXTENDS Integers, FiniteSets, FiniteSetsExt

CONSTANTS
  MaxSize,   (* bound on the bytes of an object         *)
  PartSizes, (* the sizes of a part that are asked for  *)
  Contents,  (* contents of the object, one after the other, from 1 *)
  MaxCalls   (* bound on the calls of a downloader      *)

ASSUME DownloadAssumption ==
  /\ MaxSize \in Nat /\ PartSizes \subseteq Nat \ {0}
  /\ Contents \subseteq Nat /\ 1 \in Contents /\ \A c \in Contents : 1..c \subseteq Contents

PartRetries == 3

VARIABLES
  size,      (* the size of each content                                           *)
  partSize,
  current,   (* the content that the server has                                    *)
  listed,    (* the content whose size getDetails() told, 0 before                 *)
  part,      (* each part: its stream, the content that it brings, and the calls   *)
  retry,     (* each call for a part: its discarded retry and how many may follow it *)
  unhandled, (* a rejection that nobody handles                                    *)
  iterable   (* getIterableObject()                                                *)

downloadVars == <<size, partSize, current, listed, part, retry, unhandled, iterable>>

AllParts == 1..MaxSize
NoPart == [at |-> "none", content |-> 0, calls |-> 0]
NoRetry == [at |-> "none", left |-> 0]

DownloadInit ==
  /\ size \in [Contents -> 0..MaxSize]
  /\ partSize \in PartSizes
  /\ current = 1 /\ listed = 0
  /\ part = [p \in AllParts |-> NoPart]
  /\ retry = [p \in AllParts |-> [n \in 1..MaxCalls |-> NoRetry]]
  /\ unhandled = FALSE
  /\ iterable = "none"

DownloadRests == DownloadInit /\ partSize = Min(PartSizes) /\ \A c \in Contents : size[c] = 0

(* External: putObject() of somebody. *)
Overwrite ==
  /\ current + 1 \in Contents /\ current' = current + 1
  /\ UNCHANGED <<size, partSize, listed, part, retry, unhandled, iterable>>

-----------------------------------------------------------------------------
(* Mutant: a range of HTTP taken for one that excludes its end. *)
LastBytePast(start) == Min({start + partSize, size[listed]})

LastByte(start) == Min({start + partSize, size[listed]}) - 1

(* The loop of generatePartDownloaders(): where its parts start, and the parts there are. *)
StartOf[p \in 1..MaxSize + 1] == IF p = 1 THEN 0 ELSE LastByte(StartOf[p - 1]) + 1
Parts == {p \in AllParts : StartOf[p] < size[listed]}

(* getDetails() answers and the downloaders are made, of any version that was asked for:
   only the size is kept of it. *)
GeneratePartDownloaders ==
  /\ listed = 0 /\ iterable = "none"
  /\ \E version \in 1..current : listed' = version
  /\ UNCHANGED <<size, partSize, current, part, retry, unhandled, iterable>>

(* A downloader is called, or called again after its stream has failed, while the retries
   of that stream go on: #getObjectPart() asks for its range. *)
CallDownloader(p) ==
  /\ part[p].at \in {"none", "failed"} /\ part[p].calls < MaxCalls
  /\ part' = [part EXCEPT ![p] = [@ EXCEPT !.at = "asked", !.calls = @ + 1]]
  /\ UNCHANGED <<size, partSize, current, listed, retry, unhandled, iterable>>

(* getObject() answers with a stream of the content by then, or throws. *)
StreamOpens(p) ==
  /\ part[p].at = "asked"
  /\ part' = [part EXCEPT ![p].at = "open", ![p].content = current]
  /\ UNCHANGED <<size, partSize, current, listed, retry, unhandled, iterable>>

DownloaderThrows(p) ==
  /\ part[p].at = "asked"
  /\ part' = [part EXCEPT ![p].at = "failed"]
  /\ UNCHANGED <<size, partSize, current, listed, retry, unhandled, iterable>>

StreamEnds(p) ==
  /\ part[p].at = "open"
  /\ part' = [part EXCEPT ![p].at = "done"]
  /\ UNCHANGED <<size, partSize, current, listed, retry, unhandled, iterable>>

(* 'error' reaches the application, which has the stream, and the handler that retries. *)
StreamFails(p) ==
  /\ part[p].at = "open"
  /\ part' = [part EXCEPT ![p].at = "failed"]
  /\ retry' = [retry EXCEPT ![p][part[p].calls] = [at |-> "waits", left |-> PartRetries]]
  /\ UNCHANGED <<size, partSize, current, listed, unhandled, iterable>>

(* One second later the range is asked for again. *)
Retries(p, n) ==
  /\ retry[p][n].at = "waits" /\ retry[p][n].left > 0
  /\ retry' = [retry EXCEPT ![p][n] = [at |-> "asked", left |-> @.left - 1]]
  /\ UNCHANGED <<size, partSize, current, listed, part, unhandled, iterable>>

(* The promise of the last retry is rejected, and #getObjectPart() has dropped it. *)
RetriesAreOver(p, n) ==
  /\ retry[p][n].at = "waits" /\ retry[p][n].left = 0
  /\ retry' = [retry EXCEPT ![p][n] = NoRetry] /\ unhandled' = TRUE
  /\ UNCHANGED <<size, partSize, current, listed, part, iterable>>

(* The stream of a retry is dropped: it is never read, or it fails and is retried, or
   getObject() throws in the handler of the event. *)
RetryIsDropped(p, n) ==
  /\ retry[p][n].at = "asked"
  /\ \/ retry' = [retry EXCEPT ![p][n] = NoRetry] /\ unhandled' \in {unhandled, TRUE}
     \/ retry' = [retry EXCEPT ![p][n].at = "waits"] /\ UNCHANGED unhandled
  /\ UNCHANGED <<size, partSize, current, listed, part, iterable>>

-----------------------------------------------------------------------------
(* getIterableObject() yields a promise for the 'end' of a stream of which it reads
   nothing: it listens for 'body', which streams do not emit, and not for 'data'.  An
   application downloads in this way or with downloaders. *)
IterableAsks ==
  /\ listed = 0 /\ iterable = "none" /\ iterable' = "waits"
  /\ UNCHANGED <<size, partSize, current, listed, part, retry, unhandled>>

IterableFails ==
  /\ iterable = "waits" /\ iterable' = "failed"
  /\ UNCHANGED <<size, partSize, current, listed, part, retry, unhandled>>

PartStep(p) ==
  \/ CallDownloader(p) \/ StreamOpens(p) \/ DownloaderThrows(p) \/ StreamEnds(p)
  \/ StreamFails(p)
  \/ \E n \in 1..MaxCalls : Retries(p, n) \/ RetriesAreOver(p, n) \/ RetryIsDropped(p, n)

DownloadNext ==
  \/ Overwrite
  \/ GeneratePartDownloaders
  \/ listed # 0 /\ \E p \in Parts : PartStep(p)
  \/ IterableAsks
  \/ IterableFails

DownloadSpec == DownloadInit /\ [][DownloadNext]_downloadVars

-----------------------------------------------------------------------------
BytesOf(p) == StartOf[p]..LastByte(StartOf[p])
AllDone == listed # 0 /\ \A p \in Parts : part[p].at = "done"

(* The streams of all parts, in whatever order they were called, failed and were called
   again, are together the object once and in order, unless it was overwritten: each byte
   is in one of them, none is in two, and none is beyond the end. *)
PartsWhole ==
  AllDone /\ (\A p \in Parts : part[p].content = listed) =>
    /\ UNION {BytesOf(p) : p \in Parts} = 0..size[listed] - 1
    /\ \A p, q \in Parts : p < q => Max(BytesOf(p)) < Min(BytesOf(q))

(* "@param versionId - The optional object version identifier."  The parts are of the
   version that was asked for.  The code violates it: the version is used for its size. *)
VersionAsked == AllDone => \A p \in Parts : part[p].content = listed

(* "reject(`Error when downloading the part ...`)": whoever asked for the part is told.
   The code violates it: the promise is dropped, and its rejection is unhandled. *)
NoUnhandled == ~unhandled
=============================================================================
