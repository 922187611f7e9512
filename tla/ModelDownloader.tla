-------------------------- MODULE ModelDownloader --------------------------
(***************************************************************************)
(* The download of a checkpoint into the Hugging Face cache                 *)
(* (src/checkpoint/downloader.cpp) with the libcurl transport               *)
(* (src/checkpoint/hf_http.cpp).                                            *)
(*                                                                         *)
(* The disk outlives the process, which may be killed at any place and run  *)
(* again: a blob grows in a partial file, is renamed, and is linked into    *)
(* the snapshot; the ref comes last.  One process at a time; the files are  *)
(* those of one commit, of which a run downloads all.                       *)
(*                                                                         *)
(* A file is a sequence of chunks, in order 1, 2, ...; a chunk that is not  *)
(* the file's own (the text of an error page) is 0.                         *)
(***************************************************************************)
EXTENDS Naturals, FiniteSets, SequencesExt

CONSTANTS
    NumFiles,   \* files of the commit, in the order in which they are listed
    Size,       \* [Files -> Nat \ {0}], the size the listing gives
    Wanted,     \* the files resolve_hf_model looks for
    Leftovers,  \* partial files of other programs for one blob, ".<x>.incomplete"
    Attempts,   \* kAttempts
    ErrorPages, \* whether an answer that is not the file has a body
    MaxFaults   \* crashes, cut connections and errors: a bound

Files == 1 .. NumFiles

\* The canonical partial file of a blob is number 0.
Partials == 0 .. Leftovers

ASSUME DownloadAssumption ==
    /\ NumFiles \in Nat \ {0}
    /\ Size \in [Files -> Nat \ {0}]
    /\ Wanted \subseteq Files
    /\ Leftovers \in Nat
    /\ Attempts \in Nat \ {0}
    /\ ErrorPages \in BOOLEAN
    /\ MaxFaults \in Nat

VARIABLES
    partial, \* partial files of each blob
    blob,    \* blobs/<etag>
    link,    \* snapshots/<commit>/<path>
    ref,     \* refs/<revision> names the commit
    pc,      \* where the process is, "down" when there is none
    named,   \* whether the revision is a name and not the commit's hash
    force,   \* --force
    cur,     \* the file at hand
    target,  \* the partial file it is downloaded to
    attempt, \* attempts begun
    answer,  \* status of the response, bytes to come, offset asked for
    faults,
    broken,  \* history: a run was killed while it replaced a link, and none has ended since
    spliced  \* history: files of which a second copy had begun behind the part there was
             \* when the connection or the process ended

disk    == <<partial, blob, link, ref>>
process == <<pc, named, force, cur, target, attempt, answer>>
vars    == <<disk, process, faults, broken, spliced>>

Whole(f) == [i \in 1 .. Size[f] |-> i]

NoFile      == [exists |-> FALSE, bytes |-> << >>]
File(bytes) == [exists |-> TRUE, bytes |-> bytes]

\* A leftover is a beginning of the blob.
Beginnings(f) == {NoFile} \cup {File(SubSeq(Whole(f), 1, k)) : k \in 0 .. Size[f]}

NoAnswer == [status |-> 0, rest |-> << >>, from |-> 0]

Init ==
    /\ partial \in {p \in [Files -> [Partials -> UNION {Beginnings(f) : f \in Files}]] :
                      \A f \in Files : \A n \in Partials : p[f][n] \in Beginnings(f)}
    /\ blob = [f \in Files |-> NoFile]
    /\ link = [f \in Files |-> NoFile]
    /\ ref = FALSE
    /\ pc = "down"
    /\ named = FALSE
    /\ force = FALSE
    /\ cur = 1
    /\ target = 0
    /\ attempt = 0
    /\ answer = NoAnswer
    /\ faults = 0
    /\ broken = FALSE
    /\ spliced = {}
-----------------------------------------------------------------------------
\* The files that resolve_hf_model looks for are in the snapshot ...
Found == \A f \in Wanted : link[f].exists

\* ... which it finds by the commit's hash, or by a name with a ref.
Resolved(byName) == Found /\ (byName => ref)

\* Faulty: the ref is written before the files.
RunRefFirst ==
    /\ pc = "down"
    /\ pc' = "file"
    /\ cur' = 1
    /\ named' \in BOOLEAN
    /\ force' \in BOOLEAN
    /\ ref' = (ref \/ named')
    /\ UNCHANGED <<partial, blob, link, target, attempt, answer, faults, broken, spliced>>

\* celeg-download, or the download of a model that was not resolved.
Run ==
    /\ pc = "down"
    /\ pc' = "file"
    /\ cur' = 1
    /\ named' \in BOOLEAN
    /\ force' \in BOOLEAN
    /\ UNCHANGED <<disk, target, attempt, answer, faults, broken, spliced>>

\* The file at hand is in the blobs already.
UseCached ==
    /\ pc = "file"
    /\ blob[cur].exists /\ ~force
    /\ pc' = "linking"
    /\ UNCHANGED <<disk, named, force, cur, target, attempt, answer, faults, broken, spliced>>

\* resume_path_for: the canonical file, or the longest of the others.
Resumable ==
    LET size(n)  == Len(partial[cur][n].bytes)
        best == {n \in Partials : size(n) > 0 /\ \A k \in Partials : size(k) <= size(n)}
    IN  IF partial[cur][0].exists \/ best = {} THEN {0} ELSE best

ChoosePartial ==
    /\ pc = "file"
    /\ force \/ ~blob[cur].exists
    /\ target' \in Resumable
    /\ attempt' = 0
    /\ pc' = "attempt"
    /\ UNCHANGED <<disk, named, force, cur, answer, faults, broken, spliced>>
-----------------------------------------------------------------------------
(* http_download_file. *)

Bytes == partial[cur][target].bytes

Write(bytes) == partial' = [partial EXCEPT ![cur][target] = File(bytes)]

\* resume_offset: the part that is there is trusted unless it is too long.
Offset == IF Len(Bytes) > Size[cur] THEN 0 ELSE Len(Bytes)

Page == {<< >>} \cup (IF ErrorPages THEN {<<0>>} ELSE {})

Says(status, rest) == [status |-> status, rest |-> rest, from |-> Offset]

\* What the server may answer to a request from this offset: it may ignore the
\* Range header and send the whole file.
Answers ==
    {Says(200, Whole(cur))}
    \cup {Says(206, SubSeq(Whole(cur), Offset + 1, Size[cur])) : o \in {Offset} \cap (1 .. Size[cur] - 1)}
    \cup {Says(416, page) : page \in IF Offset = Size[cur] THEN Page ELSE {}}

\* The file is opened, truncated for a request from the start, and the request sent.
Ask ==
    /\ pc = "attempt"
    /\ attempt < Attempts
    /\ attempt' = attempt + 1
    /\ Write(IF Offset = 0 THEN << >> ELSE Bytes)
    /\ answer' \in Answers
    /\ pc' = "body"
    /\ UNCHANGED <<blob, link, ref, named, force, cur, target, faults, broken, spliced>>

Fault == faults < MaxFaults /\ faults' = faults + 1

\* An error of the server.
AskInVain ==
    /\ pc = "attempt"
    /\ attempt < Attempts
    /\ Fault
    /\ attempt' = attempt + 1
    /\ Write(IF Offset = 0 THEN << >> ELSE Bytes)
    /\ answer' \in {Says(503, page) : page \in Page}
    /\ pc' = "body"
    /\ UNCHANGED <<blob, link, ref, named, force, cur, target, broken, spliced>>

\* The write callback appends what comes, whatever the status.
Receive ==
    /\ pc = "body"
    /\ answer.rest # << >>
    /\ Write(Append(Bytes, Head(answer.rest)))
    /\ answer' = [answer EXCEPT !.rest = Tail(@)]
    /\ UNCHANGED <<blob, link, ref, pc, named, force, cur, target, attempt, faults, broken, spliced>>

\* The range was ignored.
Ignored == answer.status = 200 /\ answer.from # 0

\* The transfer ends here: of a file that came from its beginning, something has
\* been appended to the part that was there.
LeavesSplice ==
    spliced' = IF pc = "body" /\ Ignored /\ Len(Bytes) > answer.from
               THEN spliced \cup {cur} ELSE spliced

\* The connection breaks: what was received stays.
Cut ==
    /\ pc = "body"
    /\ Fault
    /\ pc' = "attempt"
    /\ LeavesSplice
    /\ answer' = NoAnswer
    /\ UNCHANGED <<disk, named, force, cur, target, attempt, broken>>

\* Faulty: a transfer that ends without an error is complete.
Ended == answer.rest = << >>

Complete ==
    /\ answer.status = IF answer.from = 0 THEN 200 ELSE 206
    /\ Len(Bytes) = Size[cur]

\* Faulty: a range that was rejected is asked for again.
BodyEndsAsBefore ==
    /\ pc = "body"
    /\ answer.rest = << >>
    /\ pc' = IF Complete THEN "publish" ELSE "attempt"
    /\ answer' = NoAnswer
    /\ UNCHANGED <<disk, named, force, cur, target, attempt, faults, broken, spliced>>

\* A rejected or ignored range empties the file, any other answer keeps it.
BodyEnds ==
    /\ pc = "body"
    /\ answer.rest = << >>
    /\ pc' = IF Complete THEN "publish" ELSE "attempt"
    /\ IF ~Complete /\ answer.status \in {200, 416} /\ answer.from # 0
       THEN Write(<< >>) ELSE UNCHANGED partial
    /\ answer' = NoAnswer
    /\ UNCHANGED <<blob, link, ref, named, force, cur, target, attempt, faults, broken, spliced>>

GiveUp ==
    /\ pc = "attempt"
    /\ attempt = Attempts
    /\ pc' = "down"
    /\ UNCHANGED <<disk, named, force, cur, target, attempt, answer, faults, broken, spliced>>
-----------------------------------------------------------------------------
(* What is downloaded is published. *)

Rename ==
    /\ pc = "publish"
    /\ blob' = [blob EXCEPT ![cur] = partial[cur][target]]
    /\ partial' = [partial EXCEPT ![cur][target] = NoFile]
    /\ pc' = "linking"
    /\ UNCHANGED <<link, ref, named, force, cur, target, attempt, answer, faults, broken, spliced>>

\* create_link_or_copy removes the link that is there ...
Unlink ==
    /\ pc = "linking"
    /\ link' = [link EXCEPT ![cur] = NoFile]
    /\ pc' = "unlinked"
    /\ UNCHANGED <<partial, blob, ref, named, force, cur, target, attempt, answer, faults, broken, spliced>>

\* ... and makes the new one.  The ref is opened after the last file.
Link ==
    /\ pc = "unlinked"
    /\ link' = [link EXCEPT ![cur] = blob[cur]]
    /\ IF cur < NumFiles
       THEN pc' = "file" /\ cur' = cur + 1 /\ UNCHANGED broken
       ELSE pc' = (IF named THEN "ref" ELSE "down") /\ broken' = FALSE /\ UNCHANGED cur
    /\ UNCHANGED <<partial, blob, ref, named, force, target, attempt, answer, faults, spliced>>

\* The ref is truncated and written.
WriteRef ==
    /\ \/ pc = "ref" /\ ref' = FALSE /\ pc' = "written"
       \/ pc = "written" /\ ref' = TRUE /\ pc' = "down"
    /\ UNCHANGED <<partial, blob, link, named, force, cur, target, attempt, answer, faults, broken, spliced>>

Crash ==
    /\ pc # "down"
    /\ Fault
    /\ pc' = "down"
    /\ broken' = (broken \/ (pc = "unlinked" /\ (ref \/ \E f \in Files : f > cur /\ link[f].exists)))
    /\ LeavesSplice
    /\ answer' = NoAnswer
    /\ UNCHANGED <<disk, named, force, cur, target, attempt>>
-----------------------------------------------------------------------------
Proceed ==
    \/ Run \/ UseCached \/ ChoosePartial
    \/ Ask \/ Receive \/ BodyEnds \/ GiveUp
    \/ Rename \/ Unlink \/ Link \/ WriteRef

Next == Proceed \/ AskInVain \/ Cut \/ Crash

Spec == Init /\ [][Next]_vars

\* Somebody runs the download again when it failed, a process that is not killed
\* goes on, and the server answers.
FairSpec == Spec /\ WF_vars(Proceed)
-----------------------------------------------------------------------------
(* Properties. *)

\* What is published under the name of a blob, or linked into the snapshot, is the
\* whole file, however many runs, attempts and partial files it took, unless a
\* transfer was cut that had begun to append a second copy.
BlobsAreWhole ==
    \A f \in Files \ spliced : \A file \in {blob[f], link[f]} :
       file.exists => file.bytes = Whole(f)

\* What a snapshot that resolve_hf_model accepts vouches for: the ref, which is
\* written last, for all files; the hash alone for those up to the last one that is
\* looked for, as the files are linked in the order of the listing.
VouchedFor(byName) == {f \in Files : byName \/ \E w \in Wanted : f <= w}

\* The files vouched for are there, also while another run is under way, but for the
\* link that is being replaced and unless a run was killed while it replaced one.
ResolvedIsLinked ==
    pc # "unlinked" /\ ~broken =>
       \A byName \in BOOLEAN : Resolved(byName) => \A f \in VouchedFor(byName) : link[f].exists

\* A run ends in the end with a model that resolves by the revision it was given,
\* whatever failed runs have left on the disk.
Completes == <>(pc = "down" /\ Resolved(named))
=============================================================================
