------------------------ MODULE ModelDownloaderProofs ------------------------
(***************************************************************************)
(* Theorems of ModelDownloader, for every listing, every number of crashes, *)
(* attempts and partial files: the links of a snapshot are complete up to   *)
(* the last one there is, and all of them are there when the ref is; and,   *)
(* as long as answers that are not the file have no body, what is published *)
(* is the whole file, unless a second copy of it had begun behind the part  *)
(* there was.                                                               *)
(***************************************************************************)
EXTENDS ModelDownloader, Integers, SequenceTheorems, TLAPS

AnyFile == [exists : BOOLEAN, bytes : Seq(Nat)]

Shape ==
    /\ partial \in [Files -> [Partials -> AnyFile]]
    /\ blob \in [Files -> AnyFile]
    /\ link \in [Files -> AnyFile]
    /\ pc \in {"down", "file", "attempt", "body", "publish", "linking", "unlinked",
               "ref", "written"}
    /\ cur \in Files
    /\ target \in Partials
    /\ named \in BOOLEAN /\ ref \in BOOLEAN /\ broken \in BOOLEAN
    /\ spliced \subseteq Files
    /\ answer \in [status : Nat, rest : Seq(Nat), from : Nat]

\* What is about to be published and linked is there.
AtHand ==
    /\ pc \in {"body", "publish"} => partial[cur][target].exists
    /\ pc \in {"linking", "unlinked"} => blob[cur].exists

\* A run links the files in order ...
LinkedSoFar ==
    /\ pc \notin {"down", "ref", "written"} => \A f \in Files : f < cur => link[f].exists
    /\ pc \in {"ref", "written"} => \A f \in Files : link[f].exists

\* ... so that the linked files are the first ones of the listing, but for the one
\* whose link is being replaced or was when a run was killed.
LinkedInOrder ==
    ~broken => \A f, g \in Files :
                  g < f /\ link[f].exists => link[g].exists \/ (pc = "unlinked" /\ g = cur)

\* The ref follows the links of all files.
RefVouches ==
    ~broken /\ ref => \A f \in Files : link[f].exists \/ (pc = "unlinked" /\ f = cur)

Disk == Shape /\ AtHand /\ LinkedSoFar /\ LinkedInOrder /\ RefVouches

\* Partial files are beginnings of their blob, but for one that a second copy is
\* being appended to, ...
IsBeginning(bytes, f) == Len(bytes) <= Size[f] /\ \A i \in 1 .. Len(bytes) : bytes[i] = i

PartialsBegin ==
    \A f \in Files \ spliced : \A n \in Partials :
       \/ IsBeginning(partial[f][n].bytes, f)
       \/ f = cur /\ n = target /\ pc = "body" /\ Ignored

\* ... which begins behind the part there was; any other answer continues that part.
Continues ==
    pc = "body" /\ cur \notin spliced =>
       IF Ignored
       THEN /\ answer.from <= Len(Bytes) /\ answer.from <= Size[cur]
            /\ \A i \in 1 .. answer.from : Bytes[i] = i
       ELSE /\ Len(Bytes) + Len(answer.rest) <= Size[cur]
            /\ \A i \in 1 .. Len(answer.rest) : answer.rest[i] = Len(Bytes) + i

Contents ==
    /\ PartialsBegin
    /\ Continues
    /\ pc = "publish" => Len(Bytes) = Size[cur]
    /\ BlobsAreWhole
-----------------------------------------------------------------------------
(* The contents of files. *)

LEMMA SizeIsPositive ==
    ASSUME NEW f \in Files
    PROVE  Size[f] \in Nat /\ Size[f] >= 1
BY DownloadAssumption

LEMMA FilesAreNumbers ==
    /\ NumFiles \in Nat /\ NumFiles >= 1
    /\ \A f \in Files : f \in Int /\ 1 <= f /\ f <= NumFiles
BY DownloadAssumption DEF Files

LEMMA WholeIsWhole ==
    ASSUME NEW f \in Files
    PROVE  /\ Whole(f) \in Seq(Nat)
           /\ Len(Whole(f)) = Size[f]
           /\ \A i \in 1 .. Size[f] : Whole(f)[i] = i
<1>1. Size[f] \in Nat
    BY SizeIsPositive
<1>2. Whole(f) \in [1 .. Size[f] -> Nat]
    BY <1>1 DEF Whole
<1>3. Whole(f) \in Seq(Nat)
    BY <1>1, <1>2, SeqDef
<1>4. DOMAIN Whole(f) = 1 .. Size[f] /\ DOMAIN Whole(f) = 1 .. Len(Whole(f))
    BY <1>2, <1>3, LenProperties
<1>5. Len(Whole(f)) \in Nat
    BY <1>3, LenProperties
<1>6. Len(Whole(f)) = Size[f]
    BY <1>1, <1>4, <1>5
<1>7. QED
    BY <1>3, <1>6 DEF Whole

\* A part of a file that is cut out of the middle.
LEMMA PartOfWhole ==
    ASSUME NEW f \in Files, NEW j \in 1 .. Size[f] + 1, NEW k \in 0 .. Size[f]
    PROVE  /\ SubSeq(Whole(f), j, k) \in Seq(Nat)
           /\ Len(SubSeq(Whole(f), j, k)) = IF j <= k THEN k - j + 1 ELSE 0
           /\ \A i \in 1 .. k - j + 1 : SubSeq(Whole(f), j, k)[i] = j + i - 1
<1>1. Size[f] \in Nat /\ j \in Int /\ k \in Int
    BY SizeIsPositive
<1>2. \A i \in j .. k : Whole(f)[i] = i /\ i \in Nat
    BY <1>1, WholeIsWhole
<1>3. /\ SubSeq(Whole(f), j, k) \in Seq(Nat)
      /\ Len(SubSeq(Whole(f), j, k)) = IF j <= k THEN k - j + 1 ELSE 0
      /\ \A i \in 1 .. k - j + 1 : SubSeq(Whole(f), j, k)[i] = Whole(f)[j + i - 1]
    BY <1>1, <1>2, SubSeqProperties
<1>4. \A i \in 1 .. k - j + 1 : j + i - 1 \in j .. k
    BY <1>1
<1>5. QED
    BY <1>2, <1>3, <1>4

\* A beginning as long as the file is the file.
LEMMA LongBeginningIsWhole ==
    ASSUME NEW f \in Files, NEW bytes \in Seq(Nat), IsBeginning(bytes, f), Len(bytes) = Size[f]
    PROVE  bytes = Whole(f)
<1>1. Size[f] \in Nat
    BY SizeIsPositive
<1>2. Whole(f) \in Seq(Nat) /\ Len(Whole(f)) = Len(bytes)
    BY WholeIsWhole
<1>3. \A i \in 1 .. Len(bytes) : bytes[i] = Whole(f)[i]
    BY <1>1, WholeIsWhole DEF IsBeginning
<1>4. QED
    BY <1>2, <1>3, SeqEqual

\* The partial files of other programs are beginnings.
LEMMA BeginningsBegin ==
    ASSUME NEW f \in Files, NEW file \in Beginnings(f)
    PROVE  file \in AnyFile /\ IsBeginning(file.bytes, f)
<1>1. Size[f] \in Nat /\ Size[f] >= 1
    BY SizeIsPositive
<1>2. CASE file = NoFile
    BY <1>1, <1>2, EmptySeq DEF NoFile, AnyFile, IsBeginning
<1>3. ASSUME NEW k \in 0 .. Size[f], file = File(SubSeq(Whole(f), 1, k))
      PROVE  file \in AnyFile /\ IsBeginning(file.bytes, f)
  <2> DEFINE bytes == SubSeq(Whole(f), 1, k)
  <2>1. /\ bytes \in Seq(Nat) /\ Len(bytes) = IF 1 <= k THEN k - 1 + 1 ELSE 0
        /\ \A i \in 1 .. k - 1 + 1 : bytes[i] = 1 + i - 1
    <3>1. 1 \in 1 .. Size[f] + 1
      BY <1>1
    <3>2. QED
      BY <3>1, PartOfWhole
  <2> HIDE DEF bytes
  <2>2. Len(bytes) = k /\ \A i \in 1 .. k : bytes[i] = i
    BY <1>1, <2>1
  <2>3. file.bytes = bytes /\ file \in AnyFile
    BY <1>3, <2>1 DEF File, AnyFile, bytes
  <2>4. QED
    BY <1>1, <2>2, <2>3 DEF IsBeginning
<1>4. QED
    BY <1>2, <1>3 DEF Beginnings
-----------------------------------------------------------------------------
(* What the actions write. *)

LEMMA BytesAreTyped ==
    ASSUME Shape
    PROVE  /\ Bytes \in Seq(Nat) /\ Len(Bytes) \in Nat
           /\ Offset \in Nat /\ Offset <= Size[cur]
<1>1. Bytes \in Seq(Nat)
    BY DEF Shape, AnyFile, Bytes
<1>2. Len(Bytes) \in Nat /\ Size[cur] \in Nat
    BY <1>1, LenProperties, SizeIsPositive DEF Shape
<1>3. QED
    BY <1>1, <1>2 DEF Offset

LEMMA WriteEffect ==
    ASSUME Shape, NEW bytes \in Seq(Nat), Write(bytes)
    PROVE  /\ partial' \in [Files -> [Partials -> AnyFile]]
           /\ partial'[cur][target] = [exists |-> TRUE, bytes |-> bytes]
           /\ \A f \in Files, n \in Partials :
                 f # cur \/ n # target => partial'[f][n] = partial[f][n]
<1>1. File(bytes) \in AnyFile /\ File(bytes) = [exists |-> TRUE, bytes |-> bytes]
    BY DEF File, AnyFile
<1>2. partial' = [partial EXCEPT ![cur][target] = File(bytes)]
    BY DEF Write
<1> HIDE DEF AnyFile
<1>3. QED
    BY <1>1, <1>2 DEF Shape

\* Every answer is typed; its body, if it has one, is the file from the offset on,
\* unless the range was ignored.
LEMMA AnswersContinue ==
    ASSUME Shape, NEW a \in Answers \cup {Says(503, page) : page \in Page}
    PROVE  /\ a \in [status : Nat, rest : Seq(Nat), from : Nat]
           /\ a.from = Offset
           /\ ~ErrorPages =>
                 \/ a.status = 200 /\ a.from # 0
                 \/ /\ Len(a.rest) <= Size[cur] - Offset
                    /\ \A i \in 1 .. Len(a.rest) : a.rest[i] = Offset + i
<1>1. /\ cur \in Files /\ Offset \in Nat /\ Offset <= Size[cur]
      /\ Size[cur] \in Nat /\ Size[cur] >= 1
    BY BytesAreTyped, SizeIsPositive DEF Shape
<1>2. /\ <<>> \in Seq(Nat) /\ Len(<<>>) = 0
      /\ <<0>> \in Seq(Nat)
    BY EmptySeq
<1>3. ASSUME NEW status \in Nat, NEW page \in Page, a = Says(status, page)
      PROVE  /\ a \in [status : Nat, rest : Seq(Nat), from : Nat]
             /\ a.from = Offset /\ (~ErrorPages => a.rest = <<>>)
  <2>1. page \in Seq(Nat) /\ (~ErrorPages => page = <<>>)
    BY <1>2 DEF Page
  <2>2. QED
    BY <1>1, <1>3, <2>1 DEF Says
<1>4. CASE a = Says(200, Whole(cur))
  <2>1. /\ Whole(cur) \in Seq(Nat) /\ Len(Whole(cur)) = Size[cur]
        /\ \A i \in 1 .. Size[cur] : Whole(cur)[i] = i
    BY <1>1, WholeIsWhole
  <2>2. /\ a.rest = Whole(cur) /\ a.status = 200 /\ a.from = Offset
        /\ a \in [status : Nat, rest : Seq(Nat), from : Nat]
    BY <1>1, <1>4, <2>1 DEF Says
  <2>3. QED
    BY <1>1, <2>1, <2>2
<1>5. CASE a = Says(206, SubSeq(Whole(cur), Offset + 1, Size[cur]))
  <2> DEFINE rest == SubSeq(Whole(cur), Offset + 1, Size[cur])
  <2>1. Offset + 1 \in 1 .. Size[cur] + 1 /\ Size[cur] \in 0 .. Size[cur]
    BY <1>1
  <2>2. /\ rest \in Seq(Nat)
        /\ Len(rest) = IF Offset + 1 <= Size[cur] THEN Size[cur] - (Offset + 1) + 1 ELSE 0
        /\ \A i \in 1 .. Size[cur] - (Offset + 1) + 1 : rest[i] = (Offset + 1) + i - 1
    BY <1>1, <2>1, PartOfWhole
  <2>3. a.rest = rest /\ a.from = Offset /\ a \in [status : Nat, rest : Seq(Nat), from : Nat]
    BY <1>1, <1>5, <2>2 DEF Says
  <2> HIDE DEF rest
  <2>4. Len(rest) = Size[cur] - Offset /\ \A i \in 1 .. Len(rest) : rest[i] = Offset + i
    BY <1>1, <2>2
  <2>5. QED
    BY <1>1, <2>3, <2>4
<1>6. \/ \E status \in Nat : \E page \in Page : a = Says(status, page)
      \/ a = Says(200, Whole(cur))
      \/ a = Says(206, SubSeq(Whole(cur), Offset + 1, Size[cur]))
  <2>1. \/ a = Says(200, Whole(cur))
        \/ a = Says(206, SubSeq(Whole(cur), Offset + 1, Size[cur]))
        \/ \E page \in IF Offset = Size[cur] THEN Page ELSE {} : a = Says(416, page)
        \/ \E page \in Page : a = Says(503, page)
    BY DEF Answers
  <2>2. 416 \in Nat /\ 503 \in Nat
    OBVIOUS
  <2>3. QED
    BY <2>1, <2>2
<1>7. QED
    BY <1>1, <1>2, <1>3, <1>4, <1>5, <1>6

\* The file that is written to is always written at its end or emptied.
LEMMA WritesAreTyped ==
    ASSUME Shape
    PROVE  /\ Ask \/ AskInVain => /\ Write(IF Offset = 0 THEN <<>> ELSE Bytes)
                                  /\ (IF Offset = 0 THEN <<>> ELSE Bytes) \in Seq(Nat)
           /\ Receive => /\ Write(Append(Bytes, Head(answer.rest)))
                         /\ Append(Bytes, Head(answer.rest)) \in Seq(Nat)
                         /\ Len(Append(Bytes, Head(answer.rest))) = Len(Bytes) + 1
                         /\ \A i \in 1 .. Len(Bytes) : Append(Bytes, Head(answer.rest))[i] = Bytes[i]
                         /\ Append(Bytes, Head(answer.rest))[Len(Bytes) + 1] = answer.rest[1]
                         /\ Tail(answer.rest) \in Seq(Nat)
                         /\ Len(answer.rest) \in Nat /\ Len(answer.rest) >= 1
                         /\ Len(Tail(answer.rest)) = Len(answer.rest) - 1
                         /\ \A i \in 1 .. Len(answer.rest) - 1 :
                               Tail(answer.rest)[i] = answer.rest[i + 1]
           /\ BodyEnds => Write(<<>>) \/ UNCHANGED partial
<1>1. Bytes \in Seq(Nat) /\ <<>> \in Seq(Nat)
    BY BytesAreTyped, EmptySeq
<1>2. Ask \/ AskInVain => Write(IF Offset = 0 THEN <<>> ELSE Bytes)
    BY DEF Ask, AskInVain
<1>3. ASSUME Receive
      PROVE  /\ Write(Append(Bytes, Head(answer.rest)))
             /\ Append(Bytes, Head(answer.rest)) \in Seq(Nat)
             /\ Len(Append(Bytes, Head(answer.rest))) = Len(Bytes) + 1
             /\ \A i \in 1 .. Len(Bytes) : Append(Bytes, Head(answer.rest))[i] = Bytes[i]
             /\ Append(Bytes, Head(answer.rest))[Len(Bytes) + 1] = answer.rest[1]
             /\ Tail(answer.rest) \in Seq(Nat)
             /\ Len(answer.rest) \in Nat /\ Len(answer.rest) >= 1
             /\ Len(Tail(answer.rest)) = Len(answer.rest) - 1
             /\ \A i \in 1 .. Len(answer.rest) - 1 : Tail(answer.rest)[i] = answer.rest[i + 1]
  <2> DEFINE rest == answer.rest
             old  == Bytes
  <2>1. rest \in Seq(Nat) /\ rest # <<>> /\ Write(Append(old, Head(rest))) /\ old \in Seq(Nat)
    BY <1>1, <1>3 DEF Receive, Shape
  <2> HIDE DEF rest, old
  <2>2. /\ Head(rest) \in Nat /\ Tail(rest) \in Seq(Nat) /\ Len(Tail(rest)) = Len(rest) - 1
        /\ \A i \in 1 .. Len(Tail(rest)) : Tail(rest)[i] = rest[i + 1]
        /\ Len(rest) \in Nat /\ Len(rest) >= 1 /\ Head(rest) = rest[1]
    BY <2>1, HeadTailProperties, EmptySeq
  <2>3. /\ Append(old, Head(rest)) \in Seq(Nat)
        /\ Len(Append(old, Head(rest))) = Len(old) + 1
        /\ \A i \in 1 .. Len(old) : Append(old, Head(rest))[i] = old[i]
        /\ Append(old, Head(rest))[Len(old) + 1] = Head(rest)
    BY <2>1, <2>2, AppendProperties
  <2>4. QED
    BY <2>1, <2>2, <2>3 DEF rest, old
<1>4. BodyEnds => Write(<<>>) \/ UNCHANGED partial
    BY DEF BodyEnds
<1>5. QED
    BY <1>1, <1>2, <1>3, <1>4

LEMMA NothingIsTyped == NoFile \in AnyFile /\ NoAnswer \in [status : Nat, rest : Seq(Nat), from : Nat]
BY EmptySeq DEF NoFile, NoAnswer, AnyFile

LEMMA ResumableIsPartial == Resumable \subseteq Partials
BY DownloadAssumption DEF Resumable, Partials
-----------------------------------------------------------------------------
(* The disk: every action keeps Disk. *)

LEMMA DiskBegins == Init => Disk
<1> SUFFICES ASSUME Init PROVE Disk
    OBVIOUS
<1>1. partial \in [Files -> [Partials -> AnyFile]]
  <2>1. UNION {Beginnings(f) : f \in Files} \subseteq AnyFile
    BY BeginningsBegin
  <2> HIDE DEF AnyFile
  <2>2. partial \in [Files -> [Partials -> UNION {Beginnings(f) : f \in Files}]]
    BY DEF Init
  <2>3. QED
    BY <2>1, <2>2
<1>2. cur \in Files /\ target \in Partials
    BY DownloadAssumption DEF Init, Files, Partials
<1>3. link = [f \in Files |-> NoFile] /\ NoFile.exists = FALSE /\ pc = "down"
    BY DEF Init, NoFile
<1>4. Shape
    BY <1>1, <1>2, NothingIsTyped DEF Init, Shape
<1>5. QED
    BY <1>3, <1>4 DEF Init, Disk, AtHand, LinkedSoFar, LinkedInOrder, RefVouches

\* The actions that change the process only.
LEMMA DiskWaits ==
    ASSUME Disk, Run \/ UseCached \/ ChoosePartial \/ Cut \/ GiveUp \/ Crash
    PROVE  Disk'
<1>1. UNCHANGED <<partial, blob, link, ref>>
    BY DEF Run, UseCached, ChoosePartial, Cut, GiveUp, Crash, disk
<1>2. Shape'
  <2>1. 1 \in Files
    BY FilesAreNumbers DEF Files
  <2>2. ChoosePartial => target' \in Partials
    BY ResumableIsPartial DEF ChoosePartial
  <2> HIDE DEF AnyFile
  <2>3. QED
    BY <1>1, <2>1, <2>2, NothingIsTyped
       DEF Disk, Shape, Run, UseCached, ChoosePartial, Cut, GiveUp, Crash, LeavesSplice
<1>3. AtHand'
    BY <1>1 DEF Disk, AtHand, Run, UseCached, ChoosePartial, Cut, GiveUp, Crash
<1>4. LinkedSoFar'
  <2>1. Run => \A f \in Files : ~(f < cur')
    BY FilesAreNumbers DEF Run
  <2>2. QED
    BY <1>1, <2>1 DEF Disk, LinkedSoFar, Run, UseCached, ChoosePartial, Cut, GiveUp, Crash
<1>5. LinkedInOrder'
  <2>1. CASE Crash
    <3>1. link' = link /\ pc' = "down"
      BY <1>1, <2>1 DEF Crash
    <3>2. CASE pc = "unlinked"
      <4>1. ~broken' => ~broken /\ \A f \in Files : f > cur => ~link[f].exists
        BY <2>1, <3>2 DEF Crash
      <4>2. cur \in Files
        BY DEF Disk, Shape
      <4>3. QED
        BY <3>1, <4>1, <4>2, FilesAreNumbers DEF Disk, LinkedInOrder
    <3>3. CASE pc # "unlinked"
      BY <2>1, <3>1, <3>3 DEF Crash, Disk, LinkedInOrder
    <3>4. QED
      BY <3>2, <3>3
  <2>2. CASE ~Crash
    <3>1. broken' = broken /\ link' = link /\ pc # "unlinked"
      BY <1>1, <2>2 DEF Run, UseCached, ChoosePartial, Cut, GiveUp
    <3>2. QED
      BY <3>1 DEF Disk, LinkedInOrder
  <2>3. QED
    BY <2>1, <2>2
<1>6. RefVouches'
  <2>1. \/ broken' = broken /\ pc # "unlinked"
        \/ ~broken' => ~broken /\ (pc = "unlinked" => ~ref)
    BY DEF Run, UseCached, ChoosePartial, Cut, GiveUp, Crash
  <2>2. QED
    BY <1>1, <2>1 DEF Disk, RefVouches
<1>7. QED
    BY <1>2, <1>3, <1>4, <1>5, <1>6 DEF Disk

\* The actions of http_download_file.
LEMMA DiskReceives ==
    ASSUME Disk, Ask \/ AskInVain \/ Receive \/ BodyEnds
    PROVE  Disk'
<1>1. /\ UNCHANGED <<blob, link, ref, named, cur, target, broken, spliced>>
      /\ pc \in {"attempt", "body"} /\ pc' \in {"attempt", "body", "publish"}
    BY DEF Ask, AskInVain, Receive, BodyEnds
<1>2. Shape
    BY DEF Disk
<1>3. \/ partial' = partial /\ BodyEnds
      \/ \E bytes \in Seq(Nat) : Write(bytes)
    BY <1>2, WritesAreTyped, EmptySeq
<1>4. partial' \in [Files -> [Partials -> AnyFile]]
  <2> HIDE DEF AnyFile
  <2>1. QED
    BY <1>2, <1>3, WriteEffect DEF Shape
<1>5. partial'[cur][target].exists \/ (partial' = partial /\ BodyEnds)
  <2>1. ASSUME NEW bytes \in Seq(Nat), Write(bytes)
        PROVE  partial'[cur][target].exists
    <3>1. partial'[cur][target] = [exists |-> TRUE, bytes |-> bytes]
      BY <1>2, <2>1, WriteEffect
    <3>2. QED
      BY <3>1
  <2>2. QED
    BY <1>3, <2>1
<1>6. answer' \in [status : Nat, rest : Seq(Nat), from : Nat]
  <2>1. CASE Ask \/ AskInVain
    <3>1. answer' \in Answers \cup {Says(503, page) : page \in Page}
      BY <2>1 DEF Ask, AskInVain
    <3>2. QED
      BY <1>2, <3>1, AnswersContinue
  <2>2. CASE Receive
    <3>1. Tail(answer.rest) \in Seq(Nat)
      BY <1>2, <2>2, WritesAreTyped
    <3>2. answer' = [answer EXCEPT !.rest = Tail(answer.rest)]
      BY <2>2 DEF Receive
    <3>3. QED
      BY <1>2, <3>1, <3>2 DEF Shape
  <2>3. CASE BodyEnds
    BY <2>3, NothingIsTyped DEF BodyEnds
  <2>4. QED
    BY <2>1, <2>2, <2>3
<1>7. Shape'
  <2> HIDE DEF AnyFile
  <2>1. QED
    BY <1>1, <1>2, <1>4, <1>6 DEF Shape
<1>8. AtHand'
  <2>1. BodyEnds => pc = "body" /\ partial[cur][target].exists
    BY DEF BodyEnds, Disk, AtHand
  <2>2. partial'[cur][target].exists
    BY <1>5, <2>1
  <2>3. QED
    BY <1>1, <2>2 DEF AtHand
<1>9. LinkedSoFar' /\ LinkedInOrder' /\ RefVouches'
    BY <1>1 DEF Disk, LinkedSoFar, LinkedInOrder, RefVouches
<1>10. QED
    BY <1>7, <1>8, <1>9 DEF Disk

LEMMA DiskRenames ==
    ASSUME Disk, Rename
    PROVE  Disk'
<1>1. /\ UNCHANGED <<link, ref, named, cur, target, broken, answer, spliced>>
      /\ pc = "publish" /\ pc' = "linking"
      /\ blob' = [blob EXCEPT ![cur] = partial[cur][target]]
      /\ partial' = [partial EXCEPT ![cur][target] = NoFile]
      /\ partial[cur][target].exists
    BY DEF Rename, Disk, AtHand
<1>2. Shape /\ cur \in Files /\ target \in Partials
    BY DEF Disk, Shape
<1>3. Shape'
  <2> HIDE DEF AnyFile
  <2>1. partial' \in [Files -> [Partials -> AnyFile]] /\ blob' \in [Files -> AnyFile]
    BY <1>1, <1>2, NothingIsTyped DEF Shape
  <2>2. QED
    BY <1>1, <1>2, <2>1 DEF Shape
<1>4. AtHand'
  <2>1. blob'[cur] = partial[cur][target]
    BY <1>1, <1>2 DEF Shape
  <2>2. QED
    BY <1>1, <2>1 DEF AtHand
<1>5. LinkedSoFar' /\ LinkedInOrder' /\ RefVouches'
    BY <1>1 DEF Disk, LinkedSoFar, LinkedInOrder, RefVouches
<1>6. QED
    BY <1>3, <1>4, <1>5 DEF Disk

LEMMA DiskUnlinks ==
    ASSUME Disk, Unlink
    PROVE  Disk'
<1>1. /\ UNCHANGED <<partial, blob, ref, named, cur, target, broken, answer, spliced>>
      /\ pc = "linking" /\ pc' = "unlinked"
      /\ link' = [link EXCEPT ![cur] = NoFile]
    BY DEF Unlink
<1>2. Shape /\ cur \in Files /\ link \in [Files -> AnyFile]
    BY DEF Disk, Shape
<1>3. /\ link' \in [Files -> AnyFile]
      /\ ~link'[cur].exists
      /\ \A f \in Files : f # cur => link'[f] = link[f]
  <2>1. NoFile.exists = FALSE
    BY DEF NoFile
  <2> HIDE DEF AnyFile
  <2>2. QED
    BY <1>1, <1>2, <2>1, NothingIsTyped
<1>4. Shape'
  <2> HIDE DEF AnyFile
  <2>1. QED
    BY <1>1, <1>2, <1>3 DEF Shape
<1>5. AtHand'
    BY <1>1 DEF Disk, AtHand
<1>6. LinkedSoFar'
    BY <1>1, <1>2, <1>3, FilesAreNumbers DEF Disk, LinkedSoFar
<1>7. LinkedInOrder' /\ RefVouches'
    BY <1>1, <1>2, <1>3 DEF Disk, LinkedInOrder, RefVouches
<1>8. QED
    BY <1>4, <1>5, <1>6, <1>7 DEF Disk

LEMMA DiskLinks ==
    ASSUME Disk, Link
    PROVE  Disk'
<1>1. /\ UNCHANGED <<partial, blob, ref, named, target, answer, spliced>>
      /\ pc = "unlinked"
      /\ link' = [link EXCEPT ![cur] = blob[cur]]
      /\ blob[cur].exists
    BY DEF Link, Disk, AtHand
<1>2. Shape /\ cur \in Files /\ link \in [Files -> AnyFile] /\ blob \in [Files -> AnyFile]
    BY DEF Disk, Shape
<1>3. /\ link' \in [Files -> AnyFile]
      /\ link'[cur].exists
      /\ \A f \in Files : f # cur => link'[f] = link[f]
  <2> HIDE DEF AnyFile
  <2>1. QED
    BY <1>1, <1>2
<1>4. \A f \in Files : f <= cur => link'[f].exists
    BY <1>1, <1>2, <1>3, FilesAreNumbers DEF Disk, LinkedSoFar
<1>5. CASE cur < NumFiles
  <2>1. pc' = "file" /\ cur' = cur + 1 /\ broken' = broken
    BY <1>5 DEF Link
  <2>2. cur + 1 \in Files
    BY <1>2, <1>5, FilesAreNumbers DEF Files
  <2>3. Shape'
    <3> HIDE DEF AnyFile
    <3>1. QED
      BY <1>1, <1>2, <1>3, <2>1, <2>2 DEF Shape
  <2>4. LinkedSoFar'
    BY <1>2, <1>4, <2>1, FilesAreNumbers DEF LinkedSoFar
  <2>5. LinkedInOrder'
    BY <1>1, <1>2, <1>3, <1>4, <2>1, FilesAreNumbers DEF Disk, LinkedInOrder
  <2>6. RefVouches'
    BY <1>1, <1>2, <1>3, <2>1 DEF Disk, RefVouches
  <2>7. QED
    BY <2>1, <2>3, <2>4, <2>5, <2>6 DEF Disk, AtHand
<1>6. CASE ~(cur < NumFiles)
  <2>1. pc' \in {"ref", "down"} /\ cur' = cur /\ broken' = FALSE
    BY <1>6 DEF Link
  <2>2. \A f \in Files : link'[f].exists
    BY <1>2, <1>4, <1>6, FilesAreNumbers
  <2>3. Shape'
    <3> HIDE DEF AnyFile
    <3>1. QED
      BY <1>1, <1>2, <1>3, <2>1 DEF Shape
  <2>4. QED
    BY <2>1, <2>2, <2>3 DEF Disk, AtHand, LinkedSoFar, LinkedInOrder, RefVouches
<1>7. QED
    BY <1>5, <1>6

LEMMA DiskRefers ==
    ASSUME Disk, WriteRef \/ UNCHANGED vars
    PROVE  Disk'
<1>1. /\ UNCHANGED <<partial, blob, link, named, cur, target, broken, answer, spliced>>
      /\ \/ pc' = pc /\ ref' = ref
         \/ pc = "ref" /\ pc' = "written" /\ ref' = FALSE
         \/ pc = "written" /\ pc' = "down" /\ ref' = TRUE
    BY DEF WriteRef, vars, disk, process
<1>2. Shape'
  <2> HIDE DEF AnyFile
  <2>1. QED
    BY <1>1 DEF Disk, Shape
<1>3. AtHand' /\ LinkedSoFar' /\ LinkedInOrder' /\ RefVouches'
    BY <1>1 DEF Disk, AtHand, LinkedSoFar, LinkedInOrder, RefVouches
<1>4. QED
    BY <1>2, <1>3 DEF Disk

LEMMA DiskIsKept == Disk /\ [Next]_vars => Disk'
BY DiskWaits, DiskReceives, DiskRenames, DiskUnlinks, DiskLinks, DiskRefers DEF Next, Proceed

LEMMA DiskAlways == Spec => []Disk
BY DiskBegins, DiskIsKept, PTL DEF Spec
-----------------------------------------------------------------------------
(* The contents: every action keeps them when no answer has a body of its own. *)

LEMMA ContentsBegin == Init => Contents
<1> SUFFICES ASSUME Init PROVE Contents
    OBVIOUS
<1>1. PartialsBegin
    BY BeginningsBegin DEF Init, PartialsBegin
<1>2. BlobsAreWhole
  <2>1. NoFile.exists = FALSE
    BY DEF NoFile
  <2>2. \A f \in Files : blob[f] = NoFile /\ link[f] = NoFile
    BY DEF Init
  <2>3. QED
    BY <2>1, <2>2 DEF BlobsAreWhole
<1>3. pc = "down"
    BY DEF Init
<1>4. QED
    BY <1>1, <1>2, <1>3 DEF Contents, Continues

\* What is written to a file is a beginning of it or follows one.
LEMMA WriteKeepsBeginnings ==
    ASSUME Shape, PartialsBegin,
           NEW bytes \in Seq(Nat), Write(bytes),
           cur \in spliced \/ IsBeginning(bytes, cur) \/ (pc' = "body" /\ Ignored'),
           cur' = cur, target' = target, spliced' = spliced
    PROVE  PartialsBegin' /\ Bytes' = bytes
<1>1. /\ partial'[cur][target] = [exists |-> TRUE, bytes |-> bytes]
      /\ \A f \in Files, n \in Partials :
            f # cur \/ n # target => partial'[f][n] = partial[f][n]
    BY WriteEffect
<1>2. partial'[cur][target].bytes = bytes
    BY <1>1
<1>3. ASSUME NEW f \in Files \ spliced, NEW n \in Partials
      PROVE  \/ IsBeginning(partial'[f][n].bytes, f)
             \/ f = cur /\ n = target /\ pc' = "body" /\ Ignored'
  <2>1. CASE f = cur /\ n = target
    BY <1>2, <1>3, <2>1
  <2>2. CASE f # cur \/ n # target
    <3>1. partial'[f][n] = partial[f][n]
      BY <1>1, <2>2
    <3>2. QED
      BY <2>2, <3>1 DEF PartialsBegin
  <2>3. QED
    BY <2>1, <2>2
<1>4. QED
    BY <1>2, <1>3 DEF PartialsBegin, Bytes

LEMMA ContentsAsk ==
    ASSUME Shape, Contents, ~ErrorPages, Ask \/ AskInVain
    PROVE  Contents'
<1> DEFINE bytes == IF Offset = 0 THEN <<>> ELSE Bytes
<1>1. /\ UNCHANGED <<blob, link, cur, target, spliced>>
      /\ pc = "attempt" /\ pc' = "body" /\ Write(bytes) /\ bytes \in Seq(Nat)
      /\ answer' \in Answers \cup {Says(503, page) : page \in Page}
    BY WritesAreTyped DEF Ask, AskInVain
<1>2. Offset \in Nat /\ Offset <= Size[cur] /\ Size[cur] \in Nat
    BY BytesAreTyped, SizeIsPositive DEF Shape
<1>3. ASSUME cur \notin spliced
      PROVE  /\ IsBeginning(bytes, cur) /\ Len(bytes) = Offset
             /\ \A i \in 1 .. Offset : bytes[i] = i
  <2>1. IsBeginning(Bytes, cur)
    BY <1>1, <1>3 DEF Shape, Contents, PartialsBegin, Bytes
  <2>2. Offset = Len(Bytes)
    BY <2>1, BytesAreTyped, SizeIsPositive DEF IsBeginning, Offset, Shape
  <2>3. CASE Offset = 0
    BY <1>2, <2>3, EmptySeq DEF IsBeginning
  <2>4. CASE Offset # 0
    BY <1>2, <2>1, <2>2, <2>4 DEF IsBeginning
  <2>5. QED
    BY <2>3, <2>4
<1> HIDE DEF bytes
<1>4. PartialsBegin' /\ Bytes' = bytes
    BY <1>1, <1>3, WriteKeepsBeginnings DEF Contents
<1>5. /\ answer' \in [status : Nat, rest : Seq(Nat), from : Nat]
      /\ answer'.from = Offset
      /\ \/ answer'.status = 200 /\ answer'.from # 0
         \/ /\ Len(answer'.rest) <= Size[cur] - Offset
            /\ \A i \in 1 .. Len(answer'.rest) : answer'.rest[i] = Offset + i
    BY <1>1, AnswersContinue
<1>6. Continues'
  <2>1. Len(answer'.rest) \in Nat
    BY <1>5, LenProperties
  <2>2. CASE Ignored'
    BY <1>1, <1>2, <1>3, <1>4, <1>5, <2>2 DEF Continues
  <2>3. CASE ~Ignored'
    BY <1>1, <1>2, <1>3, <1>4, <1>5, <2>1, <2>3 DEF Continues, Ignored
  <2>4. QED
    BY <2>2, <2>3
<1>7. BlobsAreWhole'
    BY <1>1 DEF Contents, BlobsAreWhole
<1>8. QED
    BY <1>1, <1>4, <1>6, <1>7 DEF Contents

LEMMA ContentsReceive ==
    ASSUME Shape, Contents, Receive
    PROVE  Contents'
<1> DEFINE bytes == Append(Bytes, Head(answer.rest))
           old   == Bytes
           rest  == answer.rest
<1>1. /\ UNCHANGED <<blob, link, cur, target, pc, spliced>>
      /\ pc = "body" /\ answer' = [answer EXCEPT !.rest = Tail(rest)]
    BY DEF Receive
<1>2. /\ Write(bytes) /\ bytes \in Seq(Nat) /\ Len(bytes) = Len(old) + 1
      /\ \A i \in 1 .. Len(old) : bytes[i] = old[i]
      /\ bytes[Len(old) + 1] = rest[1]
      /\ Tail(rest) \in Seq(Nat) /\ Len(rest) \in Nat /\ Len(rest) >= 1
      /\ Len(Tail(rest)) = Len(rest) - 1
      /\ \A i \in 1 .. Len(rest) - 1 : Tail(rest)[i] = rest[i + 1]
      /\ Len(old) \in Nat /\ Size[cur] \in Nat
    BY WritesAreTyped, BytesAreTyped, SizeIsPositive DEF Shape
<1>3. /\ answer'.rest = Tail(rest) /\ answer'.from = answer.from /\ answer.from \in Nat
      /\ Ignored' <=> Ignored
    BY <1>1, <1>2 DEF Shape, Ignored
<1>4. ASSUME cur \notin spliced, Ignored
      PROVE  /\ answer.from <= Len(bytes) /\ answer.from <= Size[cur]
             /\ \A i \in 1 .. answer.from : bytes[i] = i
  <2>1. /\ answer.from <= Len(old) /\ answer.from <= Size[cur]
        /\ \A i \in 1 .. answer.from : old[i] = i
    BY <1>1, <1>4 DEF Contents, Continues
  <2>2. /\ answer.from \in Nat /\ Len(old) \in Nat /\ Len(bytes) = Len(old) + 1
        /\ \A i \in 1 .. Len(old) : bytes[i] = old[i]
    BY <1>2, <1>3
  <2> HIDE DEF bytes, old
  <2>3. \A i \in 1 .. answer.from : i \in 1 .. Len(old)
    BY <2>1, <2>2
  <2>4. QED
    BY <2>1, <2>2, <2>3
<1>5. ASSUME cur \notin spliced, ~Ignored
      PROVE  /\ IsBeginning(bytes, cur)
             /\ Len(bytes) + Len(Tail(rest)) <= Size[cur]
             /\ \A i \in 1 .. Len(Tail(rest)) : Tail(rest)[i] = Len(bytes) + i
  <2>1. /\ Len(old) + Len(rest) <= Size[cur]
        /\ \A i \in 1 .. Len(rest) : rest[i] = Len(old) + i
        /\ \A i \in 1 .. Len(old) : old[i] = i
    BY <1>1, <1>5 DEF Contents, PartialsBegin, Continues, IsBeginning, Shape, Bytes
  <2> HIDE DEF bytes, old, rest
  <2>2. bytes[Len(old) + 1] = Len(old) + 1
    BY <1>2, <2>1
  <2>3. \A i \in 1 .. Len(bytes) : i \in 1 .. Len(old) \/ i = Len(old) + 1
    BY <1>2
  <2>4. \A i \in 1 .. Len(bytes) : bytes[i] = i
    BY <1>2, <2>1, <2>2, <2>3
  <2>5. Len(bytes) <= Size[cur] /\ Len(bytes) + Len(Tail(rest)) <= Size[cur]
    BY <1>2, <2>1
  <2>6. \A i \in 1 .. Len(Tail(rest)) : Tail(rest)[i] = Len(bytes) + i
    BY <1>2, <2>1
  <2>7. QED
    BY <2>4, <2>5, <2>6 DEF IsBeginning
<1> HIDE DEF bytes, old, rest
<1>6. PartialsBegin' /\ Bytes' = bytes
    BY <1>1, <1>2, <1>3, <1>5, WriteKeepsBeginnings DEF Contents
<1>7. Continues'
    BY <1>1, <1>3, <1>4, <1>5, <1>6 DEF Continues
<1>8. BlobsAreWhole'
    BY <1>1 DEF Contents, BlobsAreWhole
<1>9. QED
    BY <1>1, <1>6, <1>7, <1>8 DEF Contents

\* A file that a second copy was appended to is emptied when the transfer ends.
LEMMA ContentsEnd ==
    ASSUME Shape, Contents, BodyEnds
    PROVE  Contents'
<1>1. /\ UNCHANGED <<blob, link, cur, target, spliced>>
      /\ pc = "body" /\ (pc' = "attempt" \/ (pc' = "publish" /\ Complete))
    BY DEF BodyEnds
<1>2. BlobsAreWhole' /\ Continues'
    BY <1>1 DEF Contents, BlobsAreWhole, Continues
<1>3. CASE ~Complete /\ answer.status \in {200, 416} /\ answer.from # 0
  <2>1. Write(<<>>) /\ pc' = "attempt"
    BY <1>3 DEF BodyEnds
  <2>2. IsBeginning(<<>>, cur) /\ <<>> \in Seq(Nat)
    BY SizeIsPositive, EmptySeq DEF IsBeginning, Shape
  <2>3. PartialsBegin'
    BY <1>1, <2>1, <2>2, WriteKeepsBeginnings DEF Contents
  <2>4. QED
    BY <1>2, <2>1, <2>3 DEF Contents
<1>4. CASE ~(~Complete /\ answer.status \in {200, 416} /\ answer.from # 0)
  <2>1. partial' = partial /\ ~Ignored
    BY <1>4 DEF BodyEnds, Complete, Ignored
  <2>2. Bytes' = Bytes
    BY <1>1, <2>1 DEF Bytes
  <2>3. PartialsBegin'
    BY <1>1, <2>1 DEF Contents, PartialsBegin
  <2>4. QED
    BY <1>1, <1>2, <2>2, <2>3 DEF Contents, Complete
<1>5. QED
    BY <1>3, <1>4

\* The part that is renamed is the whole file.
LEMMA ContentsRename ==
    ASSUME Shape, Contents, Rename
    PROVE  Contents'
<1>1. /\ UNCHANGED <<link, cur, target, spliced>>
      /\ pc = "publish" /\ pc' = "linking"
      /\ blob' = [blob EXCEPT ![cur] = partial[cur][target]]
      /\ partial' = [partial EXCEPT ![cur][target] = NoFile]
    BY DEF Rename
<1>2. cur \in Files /\ target \in Partials
    BY DEF Shape
<1>3. cur \notin spliced => partial[cur][target].bytes = Whole(cur)
  <2>1. /\ Bytes \in Seq(Nat) /\ Len(Bytes) = Size[cur]
        /\ cur \notin spliced => IsBeginning(Bytes, cur)
    BY <1>1, <1>2, BytesAreTyped DEF Contents, PartialsBegin, Bytes
  <2>2. QED
    BY <1>2, <2>1, LongBeginningIsWhole DEF Bytes
<1>4. BlobsAreWhole'
  <2>1. \A f \in Files : blob'[f] = IF f = cur THEN partial[cur][target] ELSE blob[f]
    BY <1>1, <1>2 DEF Shape
  <2>2. QED
    BY <1>1, <1>3, <2>1 DEF Contents, BlobsAreWhole
<1>5. PartialsBegin'
  <2>1. NoFile.bytes = <<>>
    BY DEF NoFile
  <2>2. IsBeginning(NoFile.bytes, cur)
    BY <1>2, <2>1, SizeIsPositive, EmptySeq DEF IsBeginning
  <2>3. /\ partial'[cur][target] = NoFile
        /\ \A f \in Files, n \in Partials :
              f # cur \/ n # target => partial'[f][n] = partial[f][n]
    <3> HIDE DEF AnyFile
    <3>1. QED
      BY <1>1, <1>2 DEF Shape
  <2>4. QED
    BY <1>1, <2>2, <2>3 DEF Contents, PartialsBegin
<1>6. QED
    BY <1>1, <1>4, <1>5 DEF Contents, Continues

LEMMA ContentsPublish ==
    ASSUME Shape, Contents, Unlink \/ Link
    PROVE  Contents'
<1>1. /\ UNCHANGED <<partial, blob, spliced>>
      /\ pc # "body" /\ pc' \notin {"body", "publish"}
      /\ link' = [link EXCEPT ![cur] = NoFile] \/ link' = [link EXCEPT ![cur] = blob[cur]]
    BY DEF Unlink, Link
<1>2. cur \in Files
    BY DEF Shape
<1>3. BlobsAreWhole'
  <2>1. NoFile.exists = FALSE
    BY DEF NoFile
  <2>2. \A f \in Files : link'[f] \in {link[f], NoFile, blob[f]}
    BY <1>1, <1>2 DEF Shape
  <2>3. QED
    BY <1>1, <2>1, <2>2 DEF Contents, BlobsAreWhole
<1>4. PartialsBegin'
    BY <1>1 DEF Contents, PartialsBegin
<1>5. QED
    BY <1>1, <1>3, <1>4 DEF Contents, Continues

LEMMA ContentsWait ==
    ASSUME Contents,
           Run \/ UseCached \/ ChoosePartial \/ GiveUp \/ WriteRef \/ UNCHANGED vars
    PROVE  Contents'
<1>1. UNCHANGED <<partial, blob, link, spliced>>
    BY DEF Run, UseCached, ChoosePartial, GiveUp, WriteRef, vars, disk
<1>2. (pc # "body" /\ pc' \notin {"body", "publish"}) \/ UNCHANGED vars
    BY DEF Run, UseCached, ChoosePartial, GiveUp, WriteRef
<1>3. BlobsAreWhole'
    BY <1>1 DEF Contents, BlobsAreWhole
<1>4. CASE UNCHANGED vars
  <2>1. UNCHANGED <<pc, cur, target, answer>>
    BY <1>4 DEF vars, process
  <2>2. UNCHANGED Bytes /\ UNCHANGED Ignored
    BY <1>1, <2>1 DEF Bytes, Ignored
  <2>3. PartialsBegin'
    BY <1>1, <2>1, <2>2 DEF Contents, PartialsBegin
  <2>4. QED
    BY <1>1, <1>3, <2>1, <2>2, <2>3 DEF Contents, Continues
<1>5. CASE pc # "body" /\ pc' \notin {"body", "publish"}
    BY <1>1, <1>3, <1>5 DEF Contents, PartialsBegin, Continues
<1>6. QED
    BY <1>2, <1>4, <1>5

\* A transfer that ends early leaves a beginning, or a splice.
LEMMA ContentsBreak ==
    ASSUME Shape, Contents, Cut \/ Crash
    PROVE  Contents'
<1>1. /\ UNCHANGED <<partial, blob, link>>
      /\ pc' \notin {"body", "publish"} /\ LeavesSplice
    BY DEF Cut, Crash, disk
<1>2. spliced \subseteq spliced'
    BY <1>1 DEF LeavesSplice
<1>3. BlobsAreWhole'
    BY <1>1, <1>2 DEF Contents, BlobsAreWhole
<1>4. ASSUME NEW f \in Files \ spliced', NEW n \in Partials
      PROVE  IsBeginning(partial[f][n].bytes, f)
  <2>1. CASE f = cur /\ n = target /\ pc = "body" /\ Ignored
    <3>1. cur \notin spliced /\ ~(Len(Bytes) > answer.from)
      BY <1>1, <1>2, <1>4, <2>1 DEF LeavesSplice
    <3>2. /\ answer.from <= Len(Bytes) /\ answer.from <= Size[cur]
          /\ \A i \in 1 .. answer.from : Bytes[i] = i
      BY <2>1, <3>1 DEF Contents, Continues
    <3>3. Len(Bytes) \in Nat /\ answer.from \in Nat
      BY BytesAreTyped DEF Shape
    <3>4. Len(Bytes) = answer.from
      BY <3>1, <3>2, <3>3
    <3>5. QED
      BY <2>1, <3>2, <3>4 DEF IsBeginning, Bytes
  <2>2. CASE ~(f = cur /\ n = target /\ pc = "body" /\ Ignored)
    BY <1>2, <2>2 DEF Contents, PartialsBegin
  <2>3. QED
    BY <2>1, <2>2
<1>5. PartialsBegin'
    BY <1>1, <1>4 DEF PartialsBegin
<1>6. QED
    BY <1>1, <1>3, <1>5 DEF Contents, Continues

LEMMA ContentsAreKept ==
    ASSUME ~ErrorPages
    PROVE  Disk /\ Contents /\ [Next]_vars => Contents'
BY ContentsWait, ContentsBreak, ContentsAsk, ContentsReceive, ContentsEnd, ContentsRename,
   ContentsPublish DEF Next, Proceed, Disk
-----------------------------------------------------------------------------
(* Theorems. *)

\* As long as no process was killed while it replaced a link that later files or
\* the ref follow, the links of a snapshot are those of the first files of the
\* listing, but for the one that is being replaced.
THEOREM OrderTheorem == Spec => []LinkedInOrder
<1>1. Disk => LinkedInOrder
    BY DEF Disk
<1>2. QED
    BY <1>1, DiskAlways, PTL

\* A snapshot that resolve_hf_model accepts has what its acceptance vouches for,
\* whatever the listing and whatever was killed: by a name every file of the commit,
\* by a hash every file up to the last one that is looked for.
THEOREM LinkedTheorem == Spec => []ResolvedIsLinked
<1>1. Disk => ResolvedIsLinked
  <2> SUFFICES ASSUME Disk, pc # "unlinked", ~broken, NEW byName \in BOOLEAN, Resolved(byName),
                      NEW f \in VouchedFor(byName)
               PROVE  link[f].exists
    BY DEF ResolvedIsLinked
  <2>1. f \in Files /\ (byName \/ \E w \in Wanted : f <= w)
    BY DEF VouchedFor
  <2>2. CASE byName
    BY <2>1, <2>2 DEF Disk, RefVouches, Resolved
  <2>3. ASSUME NEW w \in Wanted, f <= w
        PROVE  link[f].exists
    <3>1. w \in Files /\ link[w].exists
      BY DownloadAssumption DEF Resolved, Found
    <3>2. f < w \/ f = w
      BY <2>1, <2>3, <3>1, FilesAreNumbers
    <3>3. QED
      BY <2>1, <3>1, <3>2 DEF Disk, LinkedInOrder
  <2>4. QED
    BY <2>1, <2>2, <2>3
<1>2. QED
    BY <1>1, DiskAlways, PTL

\* When the errors of the server have no body, whatever is published under the name
\* of a blob or linked into the snapshot is the whole file, however the runs were
\* killed, the connections cut, the ranges ignored and the partial files left behind,
\* unless a transfer was cut that had begun to append a second copy.
THEOREM WholeTheorem ==
    ASSUME ~ErrorPages
    PROVE  Spec => []BlobsAreWhole
<1>1. Disk /\ Contents /\ [Next]_vars => Contents'
    BY ContentsAreKept
<1>2. Contents => BlobsAreWhole
    BY DEF Contents
<1>3. QED
    BY <1>1, <1>2, ContentsBegin, DiskAlways, PTL DEF Spec
=============================================================================
