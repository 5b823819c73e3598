--------------------------- MODULE FaxSend_proofs ---------------------------
(***************************************************************************)
(* Proofs about FaxSend: whatever the device answers, whatever fails and   *)
(* whenever the user cancels, a stream that has been ended is its          *)
(* recipient's fax and nothing else (EndedIsWhole), and a job is reported  *)
(* completed only if every recipient's stream was ended (CompletedIsSent). *)
(***************************************************************************)
EXTENDS FaxSend, FoldLemmas

-----------------------------------------------------------------------------
(* The sets the records are drawn from.                                    *)

AllFiles == Files \cup {CoverOf(r) : r \in 1..Recipients}
PageSet  == UNION {Range(PagesOf(x)) : x \in AllFiles}
Ids      == {<<"", r>> : r \in 0..Recipients} \cup {p.id : p \in PageSet}
Records  == {r \in [kind : {"dial", "header", "sop", "raster", "eop", "eos", "part", "torn"},
                    of : Ids, n : Nat] : TRUE}

(* The files and the pages of a recipient of the job; a stream up to the    *)
(* end of its k-th page, up to the c-th chunk of it, and whole.            *)
FilesOf(d, c, r) == (IF c THEN <<CoverOf(r)>> ELSE << >>) \o d
Joined(files)    == FlattenSeq([i \in DOMAIN files |-> PagesOf(files[i])])
JobPages(d, c, r) == Joined(FilesOf(d, c, r))
TotalOf(d, c)    == SumOf(IF c THEN 1 ELSE 0, [i \in DOMAIN d |-> d[i].claimed])

Begun(n, r)      == <<DialStrings(r), FaxHeader(n)>>
Framed(p)        == [i \in DOMAIN p |-> RecordsOf(p[i])]
Sent(g, r, k)    == Begun(g.claimed, r) \o FlattenSeq(SubSeq(Framed(g.pages), 1, k))
Opened(pg, c)    == <<StartOfPage(pg.id)>> \o [n \in 1..c |-> Raster(pg.id, n)]
SentPart(g, r, k, c) == Sent(g, r, k - 1) \o Opened(g.pages[k], c)
Whole(p, r)      == Begun(Len(p), r) \o FlattenSeq(Framed(p)) \o <<EndOfStream>>

EndsWell(s) == s # << >> /\ Last(s) = EndOfStream

-----------------------------------------------------------------------------
(* The inductive invariant.                                                *)

Started == {"sender", "prerender", "count"}
Preparing == {"cover", "merge", "single", "send"}
Over == {"aborted", "error", "busy", "cleanup", "done", "dead"}
Failing == {"abort", "error", "busy"}
Closing == {"reset", "close"}
Empty == {"token", "early", "idle", "start", "params", "late", "dial"}
Sending == {"open", "header", "pages", "eos", "wait"} \cup Empty

TypeInv ==
  /\ docs \in Docs /\ cover \in BOOLEAN /\ recipient \in 0..Recipients
  /\ state \in Started \cup Preparing \cup Over \cup {"recipient", "success"}
  /\ call \in {"none"} \cup Sending \cup Failing \cup Closing
  /\ loop \in {"none", "page", "raster", "dialing", "connecting"}
  /\ page \in Nat /\ chunk \in Nat
  /\ stream \in Seq(Records) /\ faxes \in Seq(Seq(Records))
  /\ reports \in Seq({"IDLE", "COMPLETED", "ERROR", "BUSY"})

FileReady == f.pages = JobPages(docs, cover, recipient) /\ f.claimed \in Nat /\ Len(f.pages) <= f.claimed

(* Which machine is where.                                                 *)
PlaceInv ==
  /\ loop # "none" => call \in {"eos", "abort", "error"}
  /\ call \in Sending \cup Failing => state \in {"recipient", "dead"}
  /\ state \notin Over \cup {"recipient"} => call = "none"

(* What the outer machine has done of the job.                             *)
JobInv ==
  /\ state \in Started => recipient = 0 /\ faxes = << >>
  /\ state \in Preparing => recipient > 0 /\ Len(faxes) = recipient - 1
  /\ state = "cover" => list = docs
  /\ state \in {"single", "merge"} => list = FilesOf(docs, cover, recipient)
  /\ state = "single" => TotalOf(docs, cover) <= 1
  /\ state = "send" => FileReady
  /\ state = "success" => recipient = Recipients
  /\ state \in {"recipient", "success"} /\ call = "none" => Len(faxes) = recipient
  /\ state \notin Over =>
       /\ call \in ({"none", "open"} \cup Closing) => stream = << >>
       /\ \A i \in DOMAIN faxes : i < recipient \/ call \in ({"none"} \cup Closing) => EndsWell(faxes[i])

(* What the call in hand has sent.                                         *)
CallInv ==
  state = "recipient" /\ call # "none" =>
    /\ recipient > 0
    /\ call \in Sending \cup Failing => FileReady
    /\ call = "open" => Len(faxes) = recipient - 1
    /\ call \in Closing \cup (Sending \ {"open"}) => Len(faxes) = recipient
    /\ call \in Empty => faxes[recipient] = << >> /\ stream = << >>
    /\ call = "header" => faxes[recipient] = <<DialStrings(recipient)>> /\ stream = << >>
    /\ call = "pages" => faxes[recipient] = Sent(f, recipient, 0) /\ stream = << >>
    /\ call = "eos" /\ loop = "none" =>
         /\ f.claimed = Len(f.pages)
         /\ faxes[recipient] = Sent(f, recipient, Len(f.pages)) /\ stream = << >>
    /\ call = "wait" => EndsWell(faxes[recipient]) /\ stream = << >>

(* What the handler of SEND_PAGES has sent; after an error or an abort it  *)
(* may still send, but never the end of the stream.                        *)
LoopInv ==
  state = "recipient" /\ loop # "none" =>
    /\ Len(faxes) = recipient
    /\ page > 0
    /\ loop # "page" => page \in DOMAIN f.pages
    /\ loop = "raster" => stream # << >> /\ Last(stream) # EndOfStream
    /\ call = "eos" =>
         /\ loop = "page" =>
              page <= Len(f.pages) + 1 /\ faxes[recipient] = Sent(f, recipient, page - 1) /\ stream = << >>
         /\ loop = "raster" => faxes[recipient] \o stream = SentPart(f, recipient, page, chunk)
         /\ loop \in {"dialing", "connecting"} =>
              faxes[recipient] = SentPart(f, recipient, page, chunk) /\ stream = << >>

EndedInv ==
  \A i \in DOMAIN faxes : EndsWell(faxes[i]) => faxes[i] = Whole(JobPages(docs, cover, i), i)

ReportInv ==
  (\E i \in DOMAIN reports : reports[i] = "COMPLETED") =>
    /\ state \in {"cleanup", "done"} /\ call = "none" /\ loop = "none"
    /\ CompletedIsSent

IInv == TypeInv /\ PlaceInv /\ JobInv /\ CallInv /\ LoopInv /\ EndedInv /\ ReportInv

-----------------------------------------------------------------------------
(* Facts about files, pages and records.                                   *)

LEMMA FileType ==
  ASSUME NEW x \in AllFiles
  PROVE  /\ x.pages \in Seq(Nat) /\ x.claimed \in Nat \ {0} /\ Len(x.pages) <= x.claimed
         /\ PagesOf(x) \in Seq(PageSet) /\ Len(PagesOf(x)) = Len(x.pages)
         /\ \A i \in DOMAIN PagesOf(x) : PagesOf(x)[i].chunks \in Nat
<1>1. x.pages \in Seq(Nat) /\ x.claimed \in Nat \ {0} /\ Len(x.pages) <= x.claimed
  <2>1. CASE x \in Files  BY <2>1, FaxAssumption
  <2>2. CASE x \in {CoverOf(r) : r \in 1..Recipients}
    <3>1. x.pages = <<1>> /\ x.claimed = 1  BY <2>2 DEF CoverOf
    <3> QED BY <3>1
  <2> QED BY <2>1, <2>2 DEF AllFiles
<1> DEFINE n == Len(x.pages)
<1>2. PagesOf(x) = [i \in 1..n |-> [id |-> Append(x.name, i), chunks |-> x.pages[i]]]
  BY <1>1 DEF PagesOf
<1>3. \A i \in 1..n : PagesOf(x)[i] \in PageSet
  BY <1>2 DEF PageSet, Range
<1>4. \A i \in 1..n : PagesOf(x)[i].chunks \in Nat  BY <1>1, <1>2
<1>5. n \in Nat  BY <1>1
<1> HIDE DEF n
<1>6. PagesOf(x) \in Seq(PageSet) /\ Len(PagesOf(x)) = n /\ DOMAIN PagesOf(x) = 1..n
  BY <1>2, <1>3, <1>5
<1> QED BY <1>1, <1>4, <1>6 DEF n

LEMMA PageType ==
  ASSUME NEW pg \in PageSet
  PROVE  pg.chunks \in Nat /\ pg.id \in Ids
<1>1. PICK x \in AllFiles : pg \in Range(PagesOf(x))  BY DEF PageSet
<1>2. PICK i \in DOMAIN PagesOf(x) : pg = PagesOf(x)[i]  BY <1>1 DEF Range
<1> QED BY <1>2, FileType DEF Ids

LEMMA FilesOfType ==
  ASSUME NEW d \in Docs, NEW c \in BOOLEAN, NEW r \in 1..Recipients
  PROVE  /\ FilesOf(d, c, r) \in Seq(AllFiles) /\ d \in Seq(AllFiles) /\ d # << >>
         /\ FilesOf(d, c, r) = IF c THEN <<CoverOf(r)>> \o d ELSE d
         /\ Len(FilesOf(d, c, r)) = (IF c THEN 1 ELSE 0) + Len(d)
         /\ \A i \in 1..Len(d) : FilesOf(d, c, r)[(IF c THEN 1 ELSE 0) + i] = d[i]
<1>1. d \in Seq(Files) /\ d # << >>  BY FaxAssumption
<1>2. d \in Seq(AllFiles)  BY <1>1 DEF AllFiles
<1>3. <<CoverOf(r)>> \in Seq(AllFiles)  BY DEF AllFiles
<1> QED BY <1>1, <1>2, <1>3 DEF FilesOf

LEMMA JoinedType ==
  ASSUME NEW files \in Seq(AllFiles)
  PROVE  /\ [i \in DOMAIN files |-> PagesOf(files[i])] \in Seq(Seq(PageSet))
         /\ Joined(files) \in Seq(PageSet)
<1>1. [i \in DOMAIN files |-> PagesOf(files[i])] \in Seq(Seq(PageSet))
  <2>1. ASSUME NEW i \in DOMAIN files PROVE PagesOf(files[i]) \in Seq(PageSet)
    <3>1. files[i] \in AllFiles  OBVIOUS
    <3> QED BY <3>1, FileType
  <2>2. DOMAIN files = 1..Len(files) /\ Len(files) \in Nat  OBVIOUS
  <2> QED BY <2>1, <2>2
<1> QED BY <1>1, FlattenType DEF Joined

LEMMA RecordsType ==
  /\ \A r \in 0..Recipients : DialStrings(r) \in Records
  /\ \A n \in Nat : FaxHeader(n) \in Records
  /\ \A pg \in PageSet, n \in Nat :
       StartOfPage(pg.id) \in Records /\ EndOfPage(pg.id) \in Records /\ Raster(pg.id, n) \in Records
  /\ EndOfStream \in Records /\ Part \in Records /\ Torn \in Records
<1>1. \A r \in 0..Recipients : <<"", r>> \in Ids  BY DEF Ids
<1>2. <<"", 0>> \in Ids
  <2>1. 0 \in 0..Recipients  BY FaxAssumption
  <2> QED BY <1>1, <2>1
<1> QED
  BY <1>1, <1>2, PageType
  DEF Records, Record, DialStrings, FaxHeader, StartOfPage, EndOfPage, Raster, EndOfStream, Part, Torn

LEMMA OnlyEnd ==
  /\ \A x, n : Raster(x, n) # EndOfStream /\ EndOfPage(x) # EndOfStream
  /\ Part # EndOfStream
BY DEF Record, Raster, EndOfPage, EndOfStream, Part

LEMMA OpenedType ==
  ASSUME NEW pg \in PageSet, NEW c \in Nat
  PROVE  /\ Opened(pg, c) \in Seq(Records)
         /\ Append(Opened(pg, c), Raster(pg.id, c + 1)) = Opened(pg, c + 1)
         /\ Append(Opened(pg, pg.chunks), EndOfPage(pg.id)) = RecordsOf(pg)
         /\ RecordsOf(pg) \in Seq(Records)
         /\ Opened(pg, 1) = <<StartOfPage(pg.id), Raster(pg.id, 1)>>
<1>1. ASSUME NEW n \in Nat
      PROVE [k \in 1..n |-> Raster(pg.id, k)] \in Seq(Records) /\ Opened(pg, n) \in Seq(Records)
  BY RecordsType DEF Opened
<1>2. Append(Opened(pg, c), Raster(pg.id, c + 1)) = Opened(pg, c + 1)
  <2> DEFINE x == StartOfPage(pg.id)
             R(k) == Raster(pg.id, k)
             a == [k \in 1..c |-> R(k)]
             b == [k \in 1..(c + 1) |-> R(k)]
  <2>1. /\ x \in Records /\ a \in Seq(Records) /\ b \in Seq(Records) /\ R(c + 1) \in Records
        /\ Opened(pg, c) = <<x>> \o a /\ Opened(pg, c + 1) = <<x>> \o b
    BY <1>1, RecordsType DEF Opened
  <2>2. Append(a, R(c + 1)) = b
    <3>1. Len(a) = c  OBVIOUS
    <3> HIDE DEF R
    <3> QED BY <3>1
  <2> HIDE DEF x, a, b, R
  <2>3. Append(<<x>> \o a, R(c + 1)) = <<x>> \o Append(a, R(c + 1))
    BY <2>1
  <2> QED BY <2>1, <2>2, <2>3 DEF R
<1>3. pg.chunks \in Nat  BY PageType
<1>4. Append(Opened(pg, pg.chunks), EndOfPage(pg.id)) = RecordsOf(pg)
  <2>1. Opened(pg, pg.chunks) \in Seq(Records) /\ EndOfPage(pg.id) \in Records  BY <1>1, <1>3, RecordsType
  <2>2. RecordsOf(pg) = Opened(pg, pg.chunks) \o <<EndOfPage(pg.id)>>  BY DEF RecordsOf, Opened
  <2> QED BY <2>1, <2>2, AppendIsConcat
<1>5. RecordsOf(pg) \in Seq(Records)
  <2>1. Opened(pg, pg.chunks) \in Seq(Records) /\ EndOfPage(pg.id) \in Records  BY <1>1, <1>3, RecordsType
  <2> QED BY <2>1, <1>4, AppendProperties
<1>6. Opened(pg, 1) = <<StartOfPage(pg.id), Raster(pg.id, 1)>>
  <2> DEFINE R(k) == Raster(pg.id, k)
  <2>1. [k \in 1..1 |-> R(k)] = <<R(1)>>  OBVIOUS
  <2>2. <<StartOfPage(pg.id)>> \o <<R(1)>> = <<StartOfPage(pg.id), R(1)>>  BY Pair, Zenon
  <2> QED BY <2>1, <2>2 DEF Opened, R
<1> QED BY <1>1, <1>2, <1>4, <1>5, <1>6

LEMMA FramedType ==
  ASSUME NEW p \in Seq(PageSet)
  PROVE  /\ Framed(p) \in Seq(Seq(Records)) /\ Len(Framed(p)) = Len(p)
         /\ \A k \in 1..Len(p) : Framed(p)[k] = RecordsOf(p[k])
<1>1. ASSUME NEW i \in DOMAIN p PROVE RecordsOf(p[i]) \in Seq(Records)
  <2>1. p[i] \in PageSet /\ 0 \in Nat  OBVIOUS
  <2> QED BY <2>1, OpenedType, Zenon
<1>2. DOMAIN p = 1..Len(p) /\ Len(p) \in Nat  OBVIOUS
<1> QED BY <1>1, <1>2 DEF Framed

LEMMA BegunType ==
  ASSUME NEW n \in Nat, NEW r \in 0..Recipients
  PROVE  /\ Begun(n, r) \in Seq(Records)
         /\ Append(<<DialStrings(r)>>, FaxHeader(n)) = Begun(n, r)
         /\ << >> \o <<DialStrings(r)>> = <<DialStrings(r)>>
         /\ <<DialStrings(r)>> \o <<FaxHeader(n)>> = Begun(n, r)
<1>1. DialStrings(r) \in Records /\ FaxHeader(n) \in Records  BY RecordsType
<1>2. Begun(n, r) \in Seq(Records)  BY <1>1 DEF Begun
<1> QED BY <1>2, Pair, Zenon DEF Begun

LEMMA SentType ==
  ASSUME NEW g, g.pages \in Seq(PageSet), g.claimed \in Nat,
         NEW r \in 0..Recipients, NEW k \in 0..Len(g.pages)
  PROVE  Sent(g, r, k) \in Seq(Records)
<1> DEFINE a == SubSeq(Framed(g.pages), 1, k)
<1>1. a \in Seq(Seq(Records))  BY FramedType, SubSeqProperties
<1>2. FlattenSeq(a) \in Seq(Records)
  <2> HIDE DEF a
  <2> QED BY <1>1, FlattenType
<1>3. Begun(g.claimed, r) \in Seq(Records)  BY BegunType
<1> HIDE DEF a
<1> QED BY <1>2, <1>3, ConcatProperties DEF Sent, a

LEMMA SentNone ==
  ASSUME NEW g, g.pages \in Seq(PageSet), g.claimed \in Nat, NEW r \in 0..Recipients
  PROVE  Sent(g, r, 0) = Begun(g.claimed, r)
<1>1. SubSeq(Framed(g.pages), 1, 0) = << >>  BY FramedType
<1>2. Begun(g.claimed, r) \in Seq(Records)  BY BegunType
<1> QED BY <1>1, <1>2, FlattenEmpty, ConcatEmptySeq DEF Sent

LEMMA SentNext ==
  ASSUME NEW g, g.pages \in Seq(PageSet), g.claimed \in Nat,
         NEW r \in 0..Recipients, NEW k \in 1..Len(g.pages)
  PROVE  Sent(g, r, k) = Sent(g, r, k - 1) \o RecordsOf(g.pages[k])
<1> DEFINE F == Framed(g.pages)
           b == Begun(g.claimed, r)
<1>1. F \in Seq(Seq(Records)) /\ k \in 1..Len(F) /\ F[k] = RecordsOf(g.pages[k])
  BY FramedType
<1>2. b \in Seq(Records)  BY BegunType
<1>3. b \o FlattenSeq(SubSeq(F, 1, k)) = (b \o FlattenSeq(SubSeq(F, 1, k - 1))) \o F[k]
  <2> HIDE DEF F, b
  <2> QED BY <1>1, <1>2, FlattenGrows, Zenon
<1> QED BY <1>1, <1>3 DEF Sent

LEMMA SentWhole ==
  ASSUME NEW g, g.pages \in Seq(PageSet), g.claimed = Len(g.pages), NEW r \in 0..Recipients
  PROVE  Sent(g, r, Len(g.pages)) \o <<EndOfStream>> = Whole(g.pages, r)
<1>1. SubSeq(Framed(g.pages), 1, Len(g.pages)) = Framed(g.pages)
  BY FramedType, SubSeqFull
<1> QED BY <1>1 DEF Sent, Whole

(* What is counted is at least the files, and at least their pages.        *)
LEMMA Counted ==
  ASSUME NEW d \in Docs, NEW c \in BOOLEAN, NEW r \in 1..Recipients
  PROVE  /\ JobPages(d, c, r) \in Seq(PageSet)
         /\ TotalOf(d, c) \in Nat
         /\ Len(FilesOf(d, c, r)) <= TotalOf(d, c)
         /\ Len(JobPages(d, c, r)) <= TotalOf(d, c)
<1> DEFINE b == IF c THEN 1 ELSE 0
           s == [i \in DOMAIN d |-> d[i].claimed]
           files == FilesOf(d, c, r)
           t == [i \in DOMAIN files |-> PagesOf(files[i])]
<1>1. /\ files \in Seq(AllFiles) /\ d \in Seq(AllFiles)
      /\ Len(files) = b + Len(d) /\ \A i \in 1..Len(d) : files[b + i] = d[i]
  BY FilesOfType
<1>2. s \in Seq(Nat \ {0}) /\ s \in Seq(Nat) /\ Len(s) = Len(d)
  <2>1. \A i \in 1..Len(d) : d[i].claimed \in Nat \ {0}  BY <1>1, FileType
  <2>2. DOMAIN d = 1..Len(d) /\ Len(d) \in Nat  BY <1>1
  <2> QED BY <2>1, <2>2
<1>3. t \in Seq(Seq(PageSet)) /\ JobPages(d, c, r) \in Seq(PageSet)
  BY <1>1, JoinedType DEF JobPages
<1>4. Len(t) = Len(files) /\ \A i \in 1..Len(files) : t[i] = PagesOf(files[i])
  BY <1>1
<1>5. ASSUME NEW i \in 1..Len(s) PROVE Len(t[b + i]) <= s[i]
  <2>1. b + i \in 1..Len(files) /\ files[b + i] = d[i] /\ d[i] \in AllFiles /\ s[i] = d[i].claimed
    BY <1>1, <1>2
  <2>2. t[b + i] = PagesOf(d[i])  BY <1>4, <2>1
  <2>3. Len(PagesOf(d[i])) = Len(d[i].pages) /\ Len(d[i].pages) <= d[i].claimed
    BY <2>1, FileType
  <2> HIDE DEF t, s, b
  <2> QED BY <2>1, <2>2, <2>3
<1>6. Width(t, b) <= b
  <2>1. CASE c
    <3> DEFINE u == SubSeq(t, 1, 1)
    <3>1. files[1] = CoverOf(r) /\ Len(files) >= 1
      <4>1. files = <<CoverOf(r)>> \o d /\ d \in Seq(AllFiles)  BY <2>1, FilesOfType
      <4>2. <<CoverOf(r)>> \in Seq(AllFiles)  BY DEF AllFiles
      <4> HIDE DEF files
      <4> QED BY <4>1, <4>2
    <3>2. Len(u) = 1 /\ u[1] = PagesOf(CoverOf(r))  BY <1>3, <1>4, <3>1
    <3>3. Len(PagesOf(CoverOf(r))) = 1  BY DEF PagesOf, CoverOf
    <3>4. FlattenSeq(u) = u[1]
      <4> HIDE DEF u
      <4> QED BY <3>2, FlattenOne
    <3>5. Width(t, 1) = 1  BY <3>2, <3>3, <3>4 DEF Width
    <3>6. b = 1  BY <2>1
    <3> HIDE DEF b, t
    <3> QED BY <3>5, <3>6
  <2>2. CASE ~c
    <3>1. SubSeq(t, 1, 0) = << >>  BY <1>3
    <3>2. Width(t, 0) = 0
      <4>1. FlattenSeq(SubSeq(t, 1, 0)) = << >>  BY ONLY <3>1, FlattenEmpty, Zenon
      <4>2. Len(<< >>) = 0  OBVIOUS
      <4> QED BY ONLY <4>1, <4>2, Zenon DEF Width
    <3>3. b = 0  BY <2>2
    <3> HIDE DEF b, t
    <3> QED BY <3>2, <3>3
  <2> QED BY <2>1, <2>2
<1>7. b \in Nat /\ Len(t) = b + Len(s)  BY <1>1, <1>2, <1>4
<1>8. SumOf(b, s) \in Nat /\ Len(FlattenSeq(t)) <= SumOf(b, s)
  <2> HIDE DEF b, s, t, files
  <2> QED BY <1>2, <1>3, <1>5, <1>6, <1>7, FlattenedLength
<1>9. b + Len(s) <= SumOf(b, s)
  <2> HIDE DEF b, s
  <2> QED BY <1>2, <1>7, SumAtLeast
<1>10. TotalOf(d, c) = SumOf(b, s) /\ JobPages(d, c, r) = FlattenSeq(t)
  BY DEF TotalOf, JobPages, Joined
<1> HIDE DEF b, s, t
<1> QED BY <1>1, <1>2, <1>3, <1>8, <1>9, <1>10

-----------------------------------------------------------------------------
(* The operators of FaxSend, in terms of the constant ones.                *)

LEMMA Total == JobTotalPages = TotalOf(docs, cover)
BY DEF JobTotalPages, TotalOf, SumOf

LEMMA WholeIs ==
  ASSUME NEW r
  PROVE  WholeFax(r) = Whole(JobPages(docs, cover, r), r)
<1>1. PagesFor(r) = JobPages(docs, cover, r)  BY DEF PagesFor, JobPages, Joined, FilesOf
<1> QED BY <1>1, Zenon DEF WholeFax, Whole, Begun, Framed

(* One file is sent as it is if what count_pages has counted is not more   *)
(* than a page: there is then no cover page and no other file.             *)
LEMMA OneFile ==
  ASSUME NEW d \in Docs, NEW c \in BOOLEAN, NEW r \in 1..Recipients, TotalOf(d, c) <= 1,
         NEW x, x = FilesOf(d, c, r)[1]
  PROVE  /\ Joined(<<x>>) = JobPages(d, c, r)
         /\ x.claimed \in Nat /\ Len(JobPages(d, c, r)) <= x.claimed
<1> DEFINE files == FilesOf(d, c, r)
<1>1. /\ files \in Seq(AllFiles) /\ d # << >> /\ d \in Seq(AllFiles)
      /\ Len(files) = (IF c THEN 1 ELSE 0) + Len(d)
  BY FilesOfType
<1>2. Len(files) <= TotalOf(d, c) /\ TotalOf(d, c) \in Nat  BY Counted
<1>3. Len(files) = 1
  <2> DEFINE l == Len(files)
             n == Len(d)
             m == TotalOf(d, c)
  <2>1. n \in Nat /\ n # 0  BY <1>1
  <2>2. l = (IF c THEN 1 ELSE 0) + n /\ l <= m /\ m \in Nat /\ m <= 1 /\ c \in BOOLEAN  BY <1>1, <1>2
  <2> HIDE DEF l, n, m
  <2>3. l = 1  BY ONLY <2>1, <2>2
  <2> QED BY <2>3 DEF l
<1>4. files = <<x>> /\ x \in AllFiles
  <2>1. x = files[1]  OBVIOUS
  <2> HIDE DEF files
  <2> QED BY <1>1, <1>3, <2>1
<1>5. Joined(<<x>>) = PagesOf(x)
  <2> DEFINE t == [i \in DOMAIN <<x>> |-> PagesOf(<<x>>[i])]
  <2>1. Len(t) = 1 /\ t[1] = PagesOf(x)  OBVIOUS
  <2>2. FlattenSeq(t) = t[1]
    <3> HIDE DEF t
    <3> QED BY <2>1, FlattenOne
  <2> QED BY <2>1, <2>2, Zenon DEF Joined
<1>6. JobPages(d, c, r) = Joined(<<x>>)  BY <1>4 DEF JobPages
<1>7. x.claimed \in Nat /\ Len(PagesOf(x)) = Len(x.pages) /\ Len(x.pages) <= x.claimed
  BY <1>4, FileType
<1> QED BY <1>5, <1>6, <1>7

(* All of a job's files are sent under what count_pages has counted.       *)
LEMMA AllOfThem ==
  ASSUME NEW d \in Docs, NEW c \in BOOLEAN, NEW r \in 1..Recipients
  PROVE  /\ Joined(FilesOf(d, c, r)) = JobPages(d, c, r)
         /\ TotalOf(d, c) \in Nat /\ Len(JobPages(d, c, r)) <= TotalOf(d, c)
BY Counted DEF JobPages

-----------------------------------------------------------------------------
(* The invariant holds at first, and of what a step leaves alone.          *)

LEMMA InitIInv == Init => IInv
<1> SUFFICES ASSUME Init PROVE IInv OBVIOUS
<1>1. Recipients \in Nat \ {0} /\ cover \in BOOLEAN  BY FaxAssumption DEF Init
<1>2. TypeInv  BY <1>1 DEF Init, TypeInv, Started
<1>3. PlaceInv  BY DEF Init, PlaceInv, Sending, Failing, Empty
<1>4. JobInv  BY DEF Init, JobInv, Started, Preparing
<1>5. CallInv /\ LoopInv  BY DEF Init, CallInv, LoopInv
<1>6. EndedInv /\ ReportInv  BY DEF Init, EndedInv, ReportInv
<1> QED BY <1>2, <1>3, <1>4, <1>5, <1>6 DEF IInv

core == <<docs, cover, recipient, list, f, state, call, loop, page, chunk, stream, faxes, reports>>

LEMMA Quiet ==
  ASSUME IInv, UNCHANGED core
  PROVE  IInv'
<1> USE DEF core
<1>1. TypeInv'  BY DEF IInv, TypeInv
<1>2. PlaceInv'  BY DEF IInv, PlaceInv
<1>3. JobInv'  BY DEF IInv, JobInv, FileReady
<1>4. CallInv'  BY DEF IInv, CallInv, FileReady
<1>5. LoopInv'  BY DEF IInv, LoopInv
<1>6. EndedInv'  BY DEF IInv, EndedInv
<1>7. ReportInv'  BY DEF IInv, ReportInv, CompletedIsSent
<1> QED BY <1>1, <1>2, <1>3, <1>4, <1>5, <1>6, <1>7 DEF IInv

(* The faxes so far stay what they are, and nothing is reported of a job   *)
(* that is not over.                                                       *)
LEMMA Unwritten ==
  ASSUME IInv, UNCHANGED <<docs, cover, faxes>>
  PROVE  EndedInv'
BY DEF IInv, EndedInv

LEMMA Unreported ==
  ASSUME IInv, UNCHANGED reports, state \notin {"cleanup", "done"} \/ call # "none" \/ loop # "none"
  PROVE  ReportInv'
BY DEF IInv, ReportInv

-----------------------------------------------------------------------------
(* The steps of the outer machine.                                         *)

LEMMA ReportStep ==
  ASSUME IInv, Aborted \/ Success \/ Failed \/ Busy
  PROVE  IInv'
<1>1. PICK status \in {"IDLE", "COMPLETED", "ERROR", "BUSY"} :
        /\ reports' = Append(reports, status)
        /\ status = "COMPLETED" => state = "success"
  BY DEF Aborted, Success, Failed, Busy, Reports, Outer
<1>2. /\ state' = "cleanup" /\ call = "none"
      /\ UNCHANGED <<docs, cover, recipient, list, f, call, loop, page, chunk, stream, faxes>>
  BY DEF Aborted, Success, Failed, Busy, Reports, Outer, Idle, job
<1>3. loop = "none"  BY <1>2 DEF IInv, PlaceInv
<1>4. TypeInv'  BY <1>1, <1>2 DEF IInv, TypeInv, Over
<1>5. PlaceInv' /\ JobInv' /\ CallInv' /\ LoopInv'
  BY <1>2, <1>3
  DEF PlaceInv, JobInv, CallInv, LoopInv, Over, Started, Preparing, Sending, Failing, Empty
<1>6. EndedInv'  BY <1>2, Unwritten
<1>7. ReportInv'
  <2>1. reports \in Seq({"IDLE", "COMPLETED", "ERROR", "BUSY"}) /\ faxes \in Seq(Seq(Records))
    BY DEF IInv, TypeInv
  <2>2. CASE status = "COMPLETED"
    <3>1. state = "success"  BY <1>1, <2>2
    <3>2. /\ recipient = Recipients /\ Len(faxes) = recipient
          /\ \A i \in DOMAIN faxes : EndsWell(faxes[i])
      BY <1>2, <3>1 DEF IInv, JobInv, Over
    <3>3. CompletedIsSent'  BY <1>2, <3>2 DEF CompletedIsSent, EndsWell
    <3> QED BY <1>2, <1>3, <3>3 DEF ReportInv
  <2>3. CASE status # "COMPLETED"
    <3>1. ASSUME NEW i \in DOMAIN reports', reports'[i] = "COMPLETED"
          PROVE  \E j \in DOMAIN reports : reports[j] = "COMPLETED"
      BY <1>1, <2>1, <2>3, <3>1
    <3>2. (\E j \in DOMAIN reports : reports[j] = "COMPLETED") => CompletedIsSent'
      BY <1>2 DEF IInv, ReportInv, CompletedIsSent
    <3> QED BY <1>2, <1>3, <3>1, <3>2 DEF ReportInv
  <2> QED BY <2>2, <2>3
<1> QED BY <1>4, <1>5, <1>6, <1>7 DEF IInv

(* Before the first recipient                                              *)
LEMMA StartStep ==
  ASSUME IInv, ReadSenderInfo \/ PreRender \/ CountPages
  PROVE  IInv'
<1>1. /\ state \in Started /\ call = "none" /\ state' \in Started \cup {"recipient", "error"}
      /\ UNCHANGED <<docs, cover, recipient, list, f, call, loop, page, chunk, stream, faxes, reports>>
  BY DEF ReadSenderInfo, PreRender, CountPages, Outer, Idle, job, Started
<1>2. loop = "none"  BY <1>1 DEF IInv, PlaceInv
<1>3. TypeInv'  BY <1>1 DEF IInv, TypeInv, Over, Started
<1>4. PlaceInv'  BY <1>1, <1>2 DEF IInv, PlaceInv, Over, Sending, Failing, Empty
<1>5. JobInv'
  <2>1. Len(<< >>) = 0  OBVIOUS
  <2> QED BY <1>1, <2>1 DEF IInv, JobInv, Over, Started, Preparing
<1>6. CallInv' /\ LoopInv'  BY <1>1, <1>2 DEF CallInv, LoopInv
<1>7. EndedInv'  BY <1>1, Unwritten
<1>8. ReportInv'  BY <1>1, Unreported DEF Started
<1> QED BY <1>3, <1>4, <1>5, <1>6, <1>7, <1>8 DEF IInv

LEMMA NextRecipientStep ==
  ASSUME IInv, NextRecipient
  PROVE  IInv'
<1>1. /\ state = "recipient" /\ call = "none" /\ RecipientFiles(recipient + 1) = docs
      /\ UNCHANGED <<docs, cover, f, call, loop, page, chunk, stream, faxes, reports>>
      /\ \/ recipient < Recipients /\ recipient' = recipient + 1 /\ list' = docs /\ state' = "cover"
         \/ ~(recipient < Recipients) /\ state' = "success" /\ UNCHANGED <<recipient, list>>
  BY DEF NextRecipient, Outer, Idle, job, RecipientFiles
<1>2. loop = "none" /\ Recipients \in Nat  BY <1>1, FaxAssumption DEF IInv, PlaceInv
<1>3. recipient \in 0..Recipients /\ faxes \in Seq(Seq(Records))  BY DEF IInv, TypeInv
<1>4. TypeInv'  BY <1>1, <1>2 DEF IInv, TypeInv, Preparing
<1>5. PlaceInv'  BY <1>1, <1>2 DEF PlaceInv, Sending, Failing, Empty
<1>6. /\ Len(faxes) = recipient /\ stream = << >>
      /\ \A i \in DOMAIN faxes : EndsWell(faxes[i])
  BY <1>1 DEF IInv, JobInv, Over
<1>7. JobInv'
  BY <1>1, <1>2, <1>3, <1>6 DEF JobInv, Started, Preparing, Over
<1>8. CallInv' /\ LoopInv'  BY <1>1, <1>2 DEF CallInv, LoopInv
<1>9. EndedInv'  BY <1>1, Unwritten
<1>10. ReportInv'  BY <1>1, Unreported
<1> QED BY <1>4, <1>5, <1>7, <1>8, <1>9, <1>10 DEF IInv

LEMMA CoverPageStep ==
  ASSUME IInv, CoverPage
  PROVE  IInv'
<1>1. /\ state = "cover" /\ call = "none"
      /\ UNCHANGED <<docs, cover, recipient, f, call, loop, page, chunk, stream, faxes, reports>>
      /\ \/ /\ list' = IF cover THEN <<CoverOf(recipient)>> \o list ELSE list
            /\ state' = IF JobTotalPages > 1 THEN "merge" ELSE "single"
         \/ state' \in {"error", "dead"} /\ UNCHANGED list
  BY DEF CoverPage, Outer, Idle
<1>2. loop = "none"  BY <1>1 DEF IInv, PlaceInv
<1>3. /\ recipient > 0 /\ Len(faxes) = recipient - 1 /\ list = docs
      /\ stream = << >> /\ \A i \in DOMAIN faxes : EndsWell(faxes[i])
  BY <1>1 DEF IInv, JobInv, Preparing, Over
<1>4. docs \in Docs /\ cover \in BOOLEAN /\ recipient \in 1..Recipients
  BY <1>3, FaxAssumption DEF IInv, TypeInv
<1>5. state' \in {"error", "dead", "merge", "single"}  BY <1>1
<1>6. TypeInv'  BY <1>1, <1>5 DEF IInv, TypeInv, Preparing, Over
<1>7. PlaceInv'  BY <1>1, <1>2 DEF PlaceInv, Sending, Failing, Empty
<1>8. state' \in {"merge", "single"} => list' = FilesOf(docs, cover, recipient)
  <2> SUFFICES ASSUME state' \in {"merge", "single"} PROVE list' = FilesOf(docs, cover, recipient)
    OBVIOUS
  <2>1. list' = IF cover THEN <<CoverOf(recipient)>> \o docs ELSE docs
    BY <1>1, <1>3
  <2>2. FilesOf(docs, cover, recipient) = IF cover THEN <<CoverOf(recipient)>> \o docs ELSE docs
    BY <1>4, FilesOfType, Zenon
  <2> QED BY <2>1, <2>2
<1>9. state' = "single" => TotalOf(docs, cover) <= 1
  <2>1. TotalOf(docs, cover) \in Nat  BY <1>4, AllOfThem
  <2>2. JobTotalPages = TotalOf(docs, cover)  BY Total
  <2> QED BY <1>1, <2>1, <2>2
<1>10. JobInv'
  BY <1>1, <1>3, <1>5, <1>8, <1>9 DEF JobInv, Started, Preparing, Over
<1>11. CallInv' /\ LoopInv'  BY <1>1, <1>2 DEF CallInv, LoopInv
<1>12. EndedInv'  BY <1>1, Unwritten
<1>13. ReportInv'  BY <1>1, Unreported
<1> QED BY <1>6, <1>7, <1>10, <1>11, <1>12, <1>13 DEF IInv

LEMMA PrepareStep ==
  ASSUME IInv, SingleFile \/ MergeFiles
  PROVE  IInv'
<1>1. /\ state \in {"single", "merge"} /\ call = "none" /\ state' = "send"
      /\ UNCHANGED <<docs, cover, recipient, list, call, loop, page, chunk, stream, faxes, reports>>
  BY DEF SingleFile, MergeFiles, PrepareFile, Outer, Idle
<1>2. loop = "none"  BY <1>1 DEF IInv, PlaceInv
<1>3. /\ recipient > 0 /\ Len(faxes) = recipient - 1 /\ list = FilesOf(docs, cover, recipient)
      /\ stream = << >> /\ \A i \in DOMAIN faxes : EndsWell(faxes[i])
      /\ state = "single" => TotalOf(docs, cover) <= 1
  BY <1>1 DEF IInv, JobInv, Preparing, Over
<1>4. docs \in Docs /\ cover \in BOOLEAN /\ recipient \in 1..Recipients
  BY <1>3, FaxAssumption DEF IInv, TypeInv
<1>5. FileReady'
  <2>1. CASE SingleFile
    <3>1. state = "single" /\ f' = [claimed |-> list[1].claimed, pages |-> Joined(<<list[1]>>)]
      BY <2>1, Zenon DEF SingleFile, PrepareFile, Outer, Joined
    <3>2. state = "single"
      BY <2>1 DEF SingleFile, PrepareFile, Outer
    <3> DEFINE x == list[1]
    <3>3. /\ Joined(<<x>>) = JobPages(docs, cover, recipient)
          /\ x.claimed \in Nat /\ Len(JobPages(docs, cover, recipient)) <= x.claimed
      BY <1>3, <1>4, <3>2, OneFile, Zenon
    <3>4. f'.claimed = x.claimed /\ f'.pages = Joined(<<x>>)
      BY <3>1
    <3> HIDE DEF x
    <3> QED BY <1>1, <3>3, <3>4 DEF FileReady
  <2>2. CASE MergeFiles
    <3>1. f' = [claimed |-> JobTotalPages, pages |-> Joined(list)]
      BY <2>2, Zenon DEF MergeFiles, PrepareFile, Joined
    <3>2. f'.claimed = TotalOf(docs, cover) /\ f'.pages = Joined(FilesOf(docs, cover, recipient))
      BY <1>3, <3>1, Total
    <3>3. /\ Joined(FilesOf(docs, cover, recipient)) = JobPages(docs, cover, recipient)
          /\ TotalOf(docs, cover) \in Nat /\ Len(JobPages(docs, cover, recipient)) <= TotalOf(docs, cover)
      BY <1>4, AllOfThem
    <3> QED BY <1>1, <3>2, <3>3 DEF FileReady
  <2> QED BY <2>1, <2>2
<1>6. TypeInv'  BY <1>1 DEF IInv, TypeInv, Preparing
<1>7. PlaceInv'  BY <1>1, <1>2 DEF PlaceInv, Sending, Failing, Empty
<1>8. JobInv'
  BY <1>1, <1>3, <1>5 DEF JobInv, Started, Preparing, Over
<1>9. CallInv' /\ LoopInv'  BY <1>1, <1>2 DEF CallInv, LoopInv
<1>10. EndedInv'  BY <1>1, Unwritten
<1>11. ReportInv'  BY <1>1, Unreported
<1> QED BY <1>6, <1>7, <1>8, <1>9, <1>10, <1>11 DEF IInv

LEMMA SendFaxStep ==
  ASSUME IInv, SendFax
  PROVE  IInv'
<1>1. /\ state = "send" /\ call = "none" /\ state' = "recipient" /\ call' = "open"
      /\ UNCHANGED <<docs, cover, recipient, list, f, loop, page, chunk, stream, faxes, reports>>
  BY DEF SendFax, Outer, job
<1>2. loop = "none"  BY <1>1 DEF IInv, PlaceInv
<1>3. /\ recipient > 0 /\ Len(faxes) = recipient - 1 /\ FileReady
      /\ stream = << >> /\ \A i \in DOMAIN faxes : EndsWell(faxes[i])
  BY <1>1 DEF IInv, JobInv, Preparing, Over
<1>4. TypeInv'  BY <1>1 DEF IInv, TypeInv, Sending
<1>5. PlaceInv'  BY <1>1, <1>2 DEF PlaceInv
<1>6. JobInv'
  BY <1>1, <1>3 DEF JobInv, Started, Preparing, Over, Closing
<1>7. CallInv'
  BY <1>1, <1>3 DEF CallInv, FileReady, Closing, Sending, Empty
<1>8. LoopInv'  BY <1>1, <1>2 DEF LoopInv
<1>9. EndedInv'  BY <1>1, Unwritten
<1>10. ReportInv'  BY <1>1, Unreported
<1> QED BY <1>4, <1>5, <1>6, <1>7, <1>8, <1>9, <1>10 DEF IInv

LEMMA CleanupStep ==
  ASSUME IInv, Cleanup
  PROVE  IInv'
<1>1. /\ state = "cleanup" /\ call = "none" /\ state' = "done"
      /\ UNCHANGED <<docs, cover, recipient, list, f, call, loop, page, chunk, stream, faxes, reports>>
  BY DEF Cleanup, Outer, Idle, job
<1>2. loop = "none"  BY <1>1 DEF IInv, PlaceInv
<1>3. TypeInv'  BY <1>1 DEF IInv, TypeInv, Over
<1>4. PlaceInv' /\ JobInv' /\ CallInv' /\ LoopInv'
  BY <1>1, <1>2
  DEF PlaceInv, JobInv, CallInv, LoopInv, Over, Started, Preparing, Sending, Failing, Empty
<1>5. EndedInv'  BY <1>1, Unwritten
<1>6. ReportInv'  BY <1>1, <1>2 DEF IInv, ReportInv, CompletedIsSent
<1> QED BY <1>3, <1>4, <1>5, <1>6 DEF IInv

-----------------------------------------------------------------------------
(* The steps of the call that write nothing.                               *)

\* What an iteration of the call that hears no cancel begins with
LEMMA InCall ==
  ASSUME IInv, NEW s, Call(s), s \notin {"abort", "error"}
  PROVE  /\ call = s /\ call # "none" /\ loop = "none" /\ state # "dead"
         /\ s \in Sending => state = "recipient"
         /\ UNCHANGED <<docs, cover, recipient, list, f, reports>>
BY DEF Call, job, IInv, PlaceInv

LEMMA CallEndsStep ==
  ASSUME IInv, Abort \/ CallError \/ DeviceBusy
  PROVE  IInv'
<1>1. /\ call # "none" /\ loop = "none" /\ call' = "reset" /\ state' \in {"aborted", "error", "busy"}
      /\ UNCHANGED <<docs, cover, recipient, list, f, loop, page, chunk, stream, faxes, reports>>
  BY DEF Abort, CallError, DeviceBusy, CallEnds, Call, EndOf, Goes, Still, job, place
<1>2. TypeInv'  BY <1>1 DEF IInv, TypeInv, Over, Closing
<1>3. PlaceInv' /\ JobInv' /\ CallInv' /\ LoopInv'
  BY <1>1
  DEF PlaceInv, JobInv, CallInv, LoopInv, Over, Started, Preparing, Sending, Failing, Empty
<1>4. EndedInv'  BY <1>1, Unwritten
<1>5. ReportInv'  BY <1>1, Unreported
<1> QED BY <1>2, <1>3, <1>4, <1>5 DEF IInv

LEMMA DeviceOpenStep ==
  ASSUME IInv, DeviceOpen
  PROVE  IInv'
<1>1. /\ call = "open" /\ loop = "none" /\ state = "recipient" /\ call' \in {"token", "error"}
      /\ faxes' = Append(faxes, << >>)
      /\ UNCHANGED <<docs, cover, recipient, list, f, state, loop, page, chunk, stream, reports>>
  <2>1. "open" \in Sending  BY DEF Sending
  <2> QED BY <2>1, InCall DEF DeviceOpen, Goes, place
<1>2. recipient \in 0..Recipients /\ faxes \in Seq(Seq(Records)) /\ stream = << >> /\ Recipients \in Nat
  BY <1>1, FaxAssumption DEF IInv, TypeInv, JobInv, Over
<1>3. /\ recipient > 0 /\ FileReady /\ Len(faxes) = recipient - 1
      /\ \A i \in DOMAIN faxes : i < recipient => EndsWell(faxes[i])
  BY <1>1 DEF IInv, JobInv, CallInv, Over, Sending
<1>4. << >> \in Seq(Records)  OBVIOUS
<1>5. /\ faxes' \in Seq(Seq(Records)) /\ Len(faxes') = recipient /\ faxes'[recipient] = << >>
      /\ DOMAIN faxes' = 1..recipient /\ \A i \in 1..recipient - 1 : i \in DOMAIN faxes /\ faxes'[i] = faxes[i]
  <2> DEFINE Q == Seq(Records)
  <2>1. faxes \in Seq(Q) /\ << >> \in Q  BY <1>2, <1>4
  <2> HIDE DEF Q
  <2>2. /\ faxes' \in Seq(Q) /\ Len(faxes') = Len(faxes) + 1 /\ faxes'[Len(faxes) + 1] = << >>
        /\ \A i \in 1..Len(faxes) : faxes'[i] = faxes[i]
    BY <1>1, <2>1, AppendProperties
  <2> QED BY <1>2, <1>3, <2>1, <2>2 DEF Q
<1>6. ~EndsWell(<< >>)  BY DEF EndsWell
<1>7. TypeInv'  BY <1>1, <1>5 DEF IInv, TypeInv, Sending, Failing, Empty
<1>8. PlaceInv'  BY <1>1 DEF PlaceInv, Over
<1>9. JobInv'
  <2>1. \A i \in DOMAIN faxes' : i < recipient => EndsWell(faxes'[i])
    BY <1>2, <1>3, <1>5
  <2> QED BY <1>1, <1>2, <2>1 DEF JobInv, Started, Preparing, Over, Closing
<1>10. CallInv'
  BY <1>1, <1>2, <1>3, <1>5 DEF CallInv, FileReady, Closing, Sending, Empty
<1>11. LoopInv'  BY <1>1 DEF LoopInv
<1>12. EndedInv'
  <2>1. \A i \in 1..recipient - 1 : EndsWell(faxes'[i]) => faxes'[i] = Whole(JobPages(docs, cover, i), i)
    BY <1>5 DEF IInv, EndedInv
  <2> QED BY <1>1, <1>2, <1>5, <1>6, <2>1 DEF EndedInv
<1>13. ReportInv'  BY <1>1, Unreported
<1> QED BY <1>7, <1>8, <1>9, <1>10, <1>11, <1>12, <1>13 DEF IInv

(* Until the number is sent, the call's stream is empty.                   *)
LEMMA EmptyStep ==
  ASSUME IInv, SetToken \/ EarlyOpening \/ CheckIdle \/ StartRequest \/ SetParams \/ LateOpening
  PROVE  IInv'
<1>1. /\ call \in Empty /\ loop = "none" /\ state = "recipient" /\ call' \in Empty \cup {"error", "busy"}
      /\ UNCHANGED <<docs, cover, recipient, list, f, state, loop, page, chunk, stream, faxes, reports>>
  <2>1. {"token", "early", "idle", "start", "params", "late"} \subseteq Sending
    BY DEF Sending, Empty
  <2>2. CASE SetToken
    BY <2>1, <2>2, InCall DEF SetToken, Calm, Still, place, Empty
  <2>3. CASE EarlyOpening
    BY <2>1, <2>3, InCall DEF EarlyOpening, Goes, Calm, Still, place, Empty
  <2>4. CASE CheckIdle
    BY <2>1, <2>4, InCall DEF CheckIdle, Calm, Still, place, Empty
  <2>5. CASE StartRequest
    BY <2>1, <2>5, InCall DEF StartRequest, Goes, Still, place, Empty
  <2>6. CASE SetParams
    BY <2>1, <2>6, InCall DEF SetParams, Goes, Calm, Still, place, Empty
  <2>7. CASE LateOpening
    BY <2>1, <2>7, InCall DEF LateOpening, Goes, Calm, Still, place, Empty
  <2> QED BY <2>2, <2>3, <2>4, <2>5, <2>6, <2>7
<1>2. /\ recipient > 0 /\ FileReady /\ Len(faxes) = recipient
      /\ faxes[recipient] = << >> /\ stream = << >>
  BY <1>1 DEF IInv, CallInv, Sending, Empty
<1>3. \A i \in DOMAIN faxes : i < recipient => EndsWell(faxes[i])
  BY <1>1 DEF IInv, JobInv, Over
<1>4. TypeInv'  BY <1>1 DEF IInv, TypeInv, Sending, Failing
<1>5. PlaceInv'  BY <1>1 DEF PlaceInv, Over
<1>6. JobInv'
  BY <1>1, <1>2, <1>3 DEF JobInv, Started, Preparing, Over, Empty, Closing
<1>7. CallInv'
  BY <1>1, <1>2 DEF CallInv, FileReady, Closing, Sending, Empty
<1>8. LoopInv'  BY <1>1 DEF LoopInv
<1>9. EndedInv'  BY <1>1, Unwritten
<1>10. ReportInv'  BY <1>1, Unreported
<1> QED BY <1>4, <1>5, <1>6, <1>7, <1>8, <1>9, <1>10 DEF IInv

LEMMA WaitStep ==
  ASSUME IInv, WaitForComplete
  PROVE  IInv'
<1>1. /\ call = "wait" /\ loop = "none" /\ state = "recipient"
      /\ state' = "recipient" /\ call' \in {"wait", "reset"}
      /\ UNCHANGED <<docs, cover, recipient, list, f, loop, page, chunk, stream, faxes, reports>>
  <2>1. "wait" \in Sending  BY DEF Sending
  <2> QED BY <2>1, InCall DEF WaitForComplete, Goes, Still, place
<1>2. CASE call' = "wait"
  BY <1>1, <1>2, Quiet DEF core
<1>3. CASE call' = "reset"
  <2>1. recipient > 0 /\ Len(faxes) = recipient /\ EndsWell(faxes[recipient]) /\ stream = << >>
    BY <1>1 DEF IInv, CallInv, Sending
  <2>2. recipient \in 0..Recipients /\ faxes \in Seq(Seq(Records)) /\ Recipients \in Nat
    BY FaxAssumption DEF IInv, TypeInv
  <2>3. \A i \in DOMAIN faxes : EndsWell(faxes[i])
    <3>1. \A i \in DOMAIN faxes : i < recipient => EndsWell(faxes[i])
      BY <1>1 DEF IInv, JobInv, Over
    <3>2. \A i \in DOMAIN faxes : i < recipient \/ i = recipient
      BY <2>1, <2>2
    <3> QED BY <2>1, <3>1, <3>2
  <2>4. TypeInv'  BY <1>1, <1>3 DEF IInv, TypeInv, Closing
  <2>5. PlaceInv'  BY <1>1, <1>3 DEF PlaceInv, Over
  <2>6. JobInv'
    BY <1>1, <1>3, <2>1, <2>3 DEF JobInv, Started, Preparing, Over
  <2>7. CallInv'
    BY <1>1, <1>3, <2>1 DEF CallInv, Closing, Sending, Failing, Empty
  <2>8. LoopInv'  BY <1>1 DEF LoopInv
  <2>9. EndedInv'  BY <1>1, Unwritten
  <2>10. ReportInv'  BY <1>1, Unreported
  <2> QED BY <2>4, <2>5, <2>6, <2>7, <2>8, <2>9, <2>10 DEF IInv
<1> QED BY <1>1, <1>2, <1>3

LEMMA CloseStep ==
  ASSUME IInv, ResetToken \/ CloseSession
  PROVE  IInv'
<1>1. /\ call \in Closing /\ loop = "none" /\ call' \in {"close", "none"}
      /\ UNCHANGED <<docs, cover, recipient, list, f, state, loop, page, chunk, stream, faxes, reports>>
  <2>1. CASE ResetToken
    BY <2>1, InCall DEF ResetToken, Goes, Calm, Still, place, Closing
  <2>2. CASE CloseSession
    BY <2>2, InCall DEF CloseSession, Goes, Calm, Still, place, Closing
  <2> QED BY <2>1, <2>2
<1>2. state \in Over \cup {"recipient"}
  BY <1>1 DEF IInv, PlaceInv, Closing
<1>3. state = "recipient" =>
        /\ recipient > 0 /\ Len(faxes) = recipient /\ stream = << >>
        /\ \A i \in DOMAIN faxes : EndsWell(faxes[i])
  BY <1>1 DEF IInv, CallInv, JobInv, Over, Closing
<1>4. TypeInv'  BY <1>1 DEF IInv, TypeInv, Closing
<1>5. PlaceInv'  BY <1>1, <1>2 DEF PlaceInv, Over, Sending, Failing, Empty
<1>6. JobInv'
  BY <1>1, <1>2, <1>3 DEF JobInv, Started, Preparing, Over
<1>7. CallInv'
  BY <1>1, <1>3 DEF CallInv, Closing, Sending, Failing, Empty
<1>8. LoopInv'  BY <1>1 DEF LoopInv
<1>9. EndedInv'  BY <1>1, Unwritten
<1>10. ReportInv'  BY <1>1, Unreported DEF Closing
<1> QED BY <1>4, <1>5, <1>6, <1>7, <1>8, <1>9, <1>10 DEF IInv

-----------------------------------------------------------------------------
(* Pages.                                                                  *)

(* What the handler of SEND_PAGES works on.                                *)
LEMMA Pages ==
  ASSUME IInv, loop # "none", state # "dead"
  PROVE  /\ state = "recipient" /\ call \in {"eos", "abort", "error"} /\ recipient \in 1..Recipients
         /\ FileReady /\ f.pages \in Seq(PageSet) /\ f.claimed \in Nat /\ Len(f.pages) <= f.claimed
         /\ Len(faxes) = recipient /\ faxes \in Seq(Seq(Records)) /\ faxes[recipient] \in Seq(Records)
         /\ stream \in Seq(Records) /\ page \in Nat \ {0} /\ chunk \in Nat
         /\ \A i \in DOMAIN faxes : i < recipient => EndsWell(faxes[i])
<1>1. call \in {"eos", "abort", "error"}  BY DEF IInv, PlaceInv
<1>2. state = "recipient"  BY <1>1 DEF IInv, PlaceInv, Sending, Failing
<1>3. recipient > 0 /\ FileReady
  BY <1>1, <1>2 DEF IInv, CallInv, Sending, Failing
<1>4. docs \in Docs /\ cover \in BOOLEAN /\ recipient \in 1..Recipients
  BY <1>3, FaxAssumption DEF IInv, TypeInv
<1>5. f.pages \in Seq(PageSet) /\ f.claimed \in Nat /\ Len(f.pages) <= f.claimed
  <2>1. JobPages(docs, cover, recipient) \in Seq(PageSet)  BY <1>4, Counted
  <2> QED BY <1>3, <2>1 DEF FileReady
<1>6. /\ faxes \in Seq(Seq(Records)) /\ stream \in Seq(Records) /\ page \in Nat /\ chunk \in Nat
      /\ Len(faxes) = recipient /\ page > 0
  BY <1>2 DEF IInv, TypeInv, LoopInv
<1>7. faxes[recipient] \in Seq(Records)
  <2> DEFINE Q == Seq(Records)
  <2>1. faxes \in Seq(Q) /\ recipient \in 1..Len(faxes)  BY <1>4, <1>6
  <2> HIDE DEF Q
  <2>2. faxes[recipient] \in Q  BY <2>1
  <2> QED BY <2>2 DEF Q
<1>8. \A i \in DOMAIN faxes : i < recipient => EndsWell(faxes[i])
  BY <1>2 DEF IInv, JobInv, Over
<1> QED BY <1>1, <1>2, <1>3, <1>4, <1>5, <1>6, <1>7, <1>8

(* What a step that writes nothing and stays in the handler, or leaves it, *)
(* keeps.                                                                  *)
LEMMA PagesKept ==
  ASSUME IInv, loop # "none", state # "dead", call' \in {"eos", "abort", "error"},
         UNCHANGED <<docs, cover, recipient, list, f, state, faxes, reports>>
  PROVE  PlaceInv' /\ JobInv' /\ EndedInv' /\ ReportInv' /\ (loop' # "none" => CallInv')
<1>1. /\ state = "recipient" /\ FileReady /\ recipient \in 1..Recipients /\ Len(faxes) = recipient
      /\ \A i \in DOMAIN faxes : i < recipient => EndsWell(faxes[i])
  BY Pages
<1>2. PlaceInv'  BY <1>1 DEF PlaceInv, Over
<1>3. JobInv'
  BY <1>1 DEF JobInv, Started, Preparing, Over, Closing
<1>4. loop' # "none" => CallInv'
  <2>1. recipient > 0  BY <1>1
  <2> QED BY <1>1, <2>1 DEF CallInv, FileReady, Closing, Sending, Empty
<1>5. EndedInv'  BY Unwritten
<1>6. ReportInv'  BY Unreported
<1> QED BY <1>2, <1>3, <1>4, <1>5, <1>6

LEMMA SendPagesStep ==
  ASSUME IInv, SendPages
  PROVE  IInv'
<1>1. /\ call = "pages" /\ loop = "none" /\ state = "recipient"
      /\ call' = "eos" /\ loop' = "page" /\ page' = 1 /\ chunk' = 0
      /\ UNCHANGED <<docs, cover, recipient, list, f, state, stream, faxes, reports>>
  <2>1. "pages" \in Sending  BY DEF Sending
  <2> QED BY <2>1, InCall DEF SendPages, Goes
<1>2. /\ recipient > 0 /\ FileReady /\ Len(faxes) = recipient
      /\ faxes[recipient] = Sent(f, recipient, 0) /\ stream = << >>
  BY <1>1 DEF IInv, CallInv, Sending
<1>3. \A i \in DOMAIN faxes : i < recipient => EndsWell(faxes[i])
  BY <1>1 DEF IInv, JobInv, Over
<1>4. Len(f.pages) \in Nat
  <2>1. docs \in Docs /\ cover \in BOOLEAN /\ recipient \in 1..Recipients
    BY <1>2, FaxAssumption DEF IInv, TypeInv
  <2>2. f.pages \in Seq(PageSet)  BY <1>2, <2>1, Counted DEF FileReady
  <2> QED BY <2>2
<1>5. TypeInv'  BY <1>1 DEF IInv, TypeInv, Sending
<1>6. PlaceInv'  BY <1>1 DEF PlaceInv, Over
<1>7. JobInv'
  BY <1>1, <1>2, <1>3 DEF JobInv, Started, Preparing, Over, Closing
<1>8. CallInv'
  BY <1>1, <1>2 DEF CallInv, FileReady, Closing, Sending, Empty
<1>9. LoopInv'
  <2>1. page' <= Len(f.pages) + 1 /\ page' - 1 = 0 /\ page' > 0  BY <1>1, <1>4
  <2> QED BY <1>1, <1>2, <2>1 DEF LoopInv
<1>10. EndedInv'  BY <1>1, Unwritten
<1>11. ReportInv'  BY <1>1, Unreported
<1> QED BY <1>5, <1>6, <1>7, <1>8, <1>9, <1>10, <1>11 DEF IInv

(* The loop over the pages ends where the header's claim does: then the    *)
(* file has held them all.                                                 *)
LEMMA LeavePagesStep ==
  ASSUME IInv, LeavePages
  PROVE  IInv'
<1>1. /\ loop = "page" /\ state # "dead" /\ loop' = "none"
      /\ call' = "abort" \/ (call' = call /\ page > f.claimed)
      /\ UNCHANGED <<docs, cover, recipient, list, f, state, page, chunk, stream, faxes, reports>>
  BY DEF LeavePages, InPages, Goes, job
<1>2. /\ state = "recipient" /\ call \in {"eos", "abort", "error"} /\ recipient > 0 /\ FileReady
      /\ f.pages \in Seq(PageSet) /\ f.claimed \in Nat /\ Len(f.pages) <= f.claimed
      /\ Len(faxes) = recipient /\ page \in Nat
  <2>1. \A n \in 1..Recipients : n > 0  BY FaxAssumption
  <2> QED BY <1>1, <2>1, Pages
<1>3. call' \in {"eos", "abort", "error"}  BY <1>1, <1>2
<1>4. PlaceInv' /\ JobInv' /\ EndedInv' /\ ReportInv'
  BY <1>1, <1>3, PagesKept
<1>5. TypeInv'  BY <1>1, <1>3 DEF IInv, TypeInv, Sending, Failing
<1>6. call' = "eos" => /\ f.claimed = Len(f.pages)
                       /\ faxes[recipient] = Sent(f, recipient, Len(f.pages)) /\ stream = << >>
  <2> SUFFICES ASSUME call' = "eos"
               PROVE  /\ f.claimed = Len(f.pages)
                      /\ faxes[recipient] = Sent(f, recipient, Len(f.pages)) /\ stream = << >>
    OBVIOUS
  <2>1. call = "eos" /\ page > f.claimed  BY <1>1
  <2>2. /\ page <= Len(f.pages) + 1 /\ faxes[recipient] = Sent(f, recipient, page - 1)
        /\ stream = << >>
    BY <1>1, <1>2, <2>1 DEF IInv, LoopInv
  <2>3. f.claimed = Len(f.pages) /\ page - 1 = Len(f.pages)
    <3>1. Len(f.pages) \in Nat  BY <1>2
    <3> QED BY <1>2, <2>1, <2>2, <3>1
  <2> QED BY <2>2, <2>3
<1>7. CallInv'
  BY <1>1, <1>2, <1>3, <1>6 DEF CallInv, FileReady, Closing, Sending, Empty
<1>8. LoopInv'  BY <1>1 DEF LoopInv
<1> QED BY <1>4, <1>5, <1>7, <1>8 DEF IInv

LEMMA PageUnreadStep ==
  ASSUME IInv, PageUnread
  PROVE  IInv'
<1>1. /\ loop = "page" /\ state # "dead" /\ call' = "error" /\ loop' = "page" /\ page' = page + 1
      /\ UNCHANGED <<docs, cover, recipient, list, f, state, chunk, stream, faxes, reports>>
  BY DEF PageUnread, InPages, NextPage, Goes, job
<1>2. PlaceInv' /\ JobInv' /\ CallInv' /\ EndedInv' /\ ReportInv'
  BY <1>1, PagesKept
<1>3. TypeInv'  BY <1>1 DEF IInv, TypeInv, Failing
<1>4. LoopInv'
  <2>1. Len(faxes) = recipient /\ page' > 0  BY <1>1, Pages
  <2> QED BY <1>1, <2>1 DEF LoopInv
<1> QED BY <1>2, <1>3, <1>4 DEF IInv

LEMMA BeginPageStep ==
  ASSUME IInv, BeginPage
  PROVE  IInv'
<1>1. /\ loop = "page" /\ call # "abort"
      /\ UNCHANGED <<docs, cover, recipient, list, f, call, page, faxes, reports>>
  BY DEF BeginPage, InPages, job, place
<1>2. CASE page \in DOMAIN f.pages
  <2> DEFINE pg == f.pages[page]
             more == <<StartOfPage(pg.id), Raster(pg.id, 1)>>
  <2>1. /\ state # "dead" /\ stream' = stream \o more /\ chunk' = 1 /\ loop' = "raster" /\ UNCHANGED state
    BY <1>2 DEF BeginPage, InPages
  <2>2. /\ call \in {"eos", "error"} /\ recipient \in 1..Recipients /\ Len(faxes) = recipient
        /\ faxes[recipient] \in Seq(Records) /\ stream \in Seq(Records) /\ page \in Nat \ {0}
        /\ state = "recipient" /\ f.pages \in Seq(PageSet)
    BY <1>1, <2>1, Pages
  <2>3. pg \in PageSet  BY <1>2, <2>2
  <2>4. /\ more \in Seq(Records) /\ more # << >> /\ Last(more) # EndOfStream
        /\ Opened(pg, 1) = more
    <3>1. StartOfPage(pg.id) \in Records /\ Raster(pg.id, 1) \in Records
      BY <2>3, RecordsType
    <3>2. Opened(pg, 1) = more
      <4> HIDE DEF pg
      <4> QED BY <2>3, OpenedType
    <3>3. Raster(pg.id, 1) # EndOfStream  BY OnlyEnd
    <3> DEFINE x == StartOfPage(pg.id)
               y == Raster(pg.id, 1)
    <3> HIDE DEF x, y
    <3>4. <<x, y>> \in Seq(Records) /\ <<x, y>> # << >> /\ Last(<<x, y>>) = y
      <4>1. x \in Records /\ y \in Records  BY <3>1 DEF x, y
      <4> QED BY <4>1 DEF Last
    <3> QED BY <3>2, <3>3, <3>4 DEF x, y
  <2>5. stream' \in Seq(Records) /\ stream' # << >> /\ Last(stream') # EndOfStream
    <3> HIDE DEF more
    <3> QED BY <2>1, <2>2, <2>4, LastOfConcat, ConcatProperties
  <2>6. PlaceInv' /\ JobInv' /\ CallInv' /\ EndedInv' /\ ReportInv'
    BY <1>1, <2>1, <2>2, PagesKept
  <2>7. TypeInv'  BY <1>1, <2>1, <2>5 DEF IInv, TypeInv
  <2>8. call = "eos" => faxes[recipient] \o stream' = SentPart(f, recipient, page, 1)
    <3> SUFFICES ASSUME call = "eos" PROVE faxes[recipient] \o stream' = SentPart(f, recipient, page, 1)
      OBVIOUS
    <3>1. stream = << >> /\ faxes[recipient] = Sent(f, recipient, page - 1)
      BY <1>1, <2>2 DEF IInv, LoopInv
    <3>2. stream' = more
      <4> HIDE DEF more
      <4> QED BY <2>1, <2>4, <3>1, ConcatEmptySeq
    <3> HIDE DEF more
    <3> QED BY <2>4, <3>1, <3>2 DEF SentPart, pg
  <2>9. LoopInv'
    <3>1. /\ loop' = "raster" /\ chunk' = 1 /\ page' > 0 /\ page' \in DOMAIN f'.pages
          /\ Len(faxes') = recipient' /\ stream' # << >> /\ Last(stream') # EndOfStream
      BY <1>1, <1>2, <2>1, <2>2, <2>5
    <3>2. call' = "eos" => faxes'[recipient'] \o stream' = SentPart(f', recipient', page', chunk')
      BY <1>1, <2>1, <2>8
    <3> HIDE DEF pg, more
    <3> QED BY <3>1, <3>2 DEF LoopInv
  <2> QED BY <2>6, <2>7, <2>9 DEF IInv
<1>3. CASE page \notin DOMAIN f.pages
  <2>1. state' = "dead" /\ UNCHANGED <<loop, chunk, stream>>
    BY <1>3 DEF BeginPage, InPages, place
  <2>2. TypeInv'  BY <1>1, <2>1 DEF IInv, TypeInv, Over
  <2>3. PlaceInv' /\ JobInv' /\ CallInv' /\ LoopInv'
    BY <1>1, <2>1
    DEF IInv, PlaceInv, JobInv, CallInv, LoopInv, Over, Started, Preparing, Sending, Failing, Empty
  <2>4. EndedInv'  BY <1>1, Unwritten
  <2>5. ReportInv'  BY <1>1, Unreported
  <2> QED BY <2>2, <2>3, <2>4, <2>5 DEF IInv
<1> QED BY <1>2, <1>3

-----------------------------------------------------------------------------
(* The steps that write to the fax channel.                                *)

LEMMA Written ==
  ASSUME NEW then, NEW block \in Seq(Records), WriteStream(block, then),
         faxes \in Seq(Seq(Records)), Len(faxes) = recipient, recipient \in Nat \ {0}
  PROVE  /\ faxes' \in Seq(Seq(Records)) /\ stream' \in Seq(Records) /\ Len(faxes') = recipient
         /\ faxes[recipient] \in Seq(Records)
         /\ \A i \in DOMAIN faxes' : i # recipient => i \in DOMAIN faxes /\ faxes'[i] = faxes[i]
         /\ \/ /\ faxes'[recipient] = faxes[recipient] \o block
               /\ stream' = << >> /\ call' = then
            \/ /\ faxes'[recipient] = Append(faxes[recipient], Part)
               /\ stream' = <<Torn>> /\ call' = "error"
<1> DEFINE Q == Seq(Records)
           old == faxes[recipient]
<1>1. faxes \in Seq(Q) /\ DOMAIN faxes = 1..Len(faxes)  OBVIOUS
<1>2. recipient \in 1..Len(faxes) /\ recipient \in DOMAIN faxes  BY <1>1
<1>3. old \in Seq(Records)
  <2> HIDE DEF Q
  <2>1. faxes[recipient] \in Q  BY <1>1, <1>2
  <2> QED BY <2>1 DEF Q
<1>4. ASSUME NEW new \in Seq(Records), faxes' = [faxes EXCEPT ![recipient] = new]
      PROVE  /\ faxes' \in Seq(Seq(Records)) /\ Len(faxes') = recipient /\ faxes'[recipient] = new
             /\ \A i \in DOMAIN faxes' : i # recipient => i \in DOMAIN faxes /\ faxes'[i] = faxes[i]
  <2>1. new \in Q  OBVIOUS
  <2> HIDE DEF Q
  <2>2. faxes' \in Seq(Q) /\ Len(faxes') = Len(faxes)  BY <1>1, <1>2, <1>4, <2>1
  <2>3. DOMAIN faxes' = DOMAIN faxes  BY <1>4
  <2> QED BY <1>2, <1>4, <2>2, <2>3 DEF Q
<1>5. /\ old \o block \in Seq(Records) /\ Append(old, Part) \in Seq(Records)
      /\ << >> \in Seq(Records) /\ <<Torn>> \in Seq(Records)
  <2>1. Part \in Records /\ Torn \in Records  BY RecordsType
  <2> HIDE DEF old
  <2> QED BY <1>3, <2>1, ConcatProperties, AppendProperties
<1>6. \/ /\ faxes' = [faxes EXCEPT ![recipient] = old \o block]
         /\ stream' = << >> /\ call' = then
      \/ /\ faxes' = [faxes EXCEPT ![recipient] = Append(old, Part)]
         /\ stream' = <<Torn>> /\ call' = "error"
  BY DEF WriteStream
<1> HIDE DEF Q, old
<1>7. CASE /\ faxes' = [faxes EXCEPT ![recipient] = old \o block]
           /\ stream' = << >> /\ call' = then
  <2>1. /\ faxes' \in Seq(Seq(Records)) /\ Len(faxes') = recipient /\ faxes'[recipient] = old \o block
        /\ \A i \in DOMAIN faxes' : i # recipient => i \in DOMAIN faxes /\ faxes'[i] = faxes[i]
    BY <1>4, <1>5, <1>7, Zenon
  <2> QED BY ONLY <1>3, <1>5, <1>7, <2>1, Zenon DEF old
<1>8. CASE /\ faxes' = [faxes EXCEPT ![recipient] = Append(old, Part)]
           /\ stream' = <<Torn>> /\ call' = "error"
  <2>1. /\ faxes' \in Seq(Seq(Records)) /\ Len(faxes') = recipient /\ faxes'[recipient] = Append(old, Part)
        /\ \A i \in DOMAIN faxes' : i # recipient => i \in DOMAIN faxes /\ faxes'[i] = faxes[i]
    BY <1>4, <1>5, <1>8, Zenon
  <2> QED BY ONLY <1>3, <1>5, <1>8, <2>1, Zenon DEF old
<1> QED BY <1>6, <1>7, <1>8, Zenon

LEMMA Unended ==
  ASSUME NEW s \in Seq(Records), NEW t \in Seq(Records), t # << >>, Last(t) # EndOfStream
  PROVE  ~EndsWell(s \o t) /\ ~EndsWell(Append(s, Part))
<1>1. Part \in Records /\ Part # EndOfStream  BY RecordsType, OnlyEnd
<1>2. Last(s \o t) = Last(t)  BY LastOfConcat
<1>3. Last(Append(s, Part)) = Part  BY <1>1, LastOfAppend
<1> QED BY <1>1, <1>2, <1>3 DEF EndsWell

(* The faxes before the last stay what they are.                           *)
LEMMA LastWritten ==
  ASSUME IInv, UNCHANGED <<docs, cover>>,
         \A i \in DOMAIN faxes' : i # recipient => i \in DOMAIN faxes /\ faxes'[i] = faxes[i],
         EndsWell(faxes'[recipient]) => faxes'[recipient] = Whole(JobPages(docs, cover, recipient), recipient)
  PROVE  EndedInv'
<1>1. ASSUME NEW i \in DOMAIN faxes', EndsWell(faxes'[i])
      PROVE  faxes'[i] = Whole(JobPages(docs, cover, i), i)
  <2>1. CASE i = recipient  BY <1>1, <2>1
  <2>2. CASE i # recipient
    <3>1. i \in DOMAIN faxes /\ faxes'[i] = faxes[i]  BY <1>1, <2>2
    <3> QED BY <1>1, <3>1 DEF IInv, EndedInv
  <2> QED BY <2>1, <2>2
<1> QED BY <1>1 DEF EndedInv

(* A record of its own: the number, the header, the end of the stream.     *)
LEMMA SendsStep ==
  ASSUME IInv, NEW s \in {"dial", "header", "eos"}, NEW then \in {"header", "pages", "wait"},
         NEW record, record \in Records, Sends(s, <<record>>, then),
         then = "wait" <=> s = "eos", record = EndOfStream <=> s = "eos",
         state = "recipient" /\ call = s =>
           /\ then = "header" => Append(faxes[recipient], record) = <<DialStrings(recipient)>>
           /\ then = "pages" => Append(faxes[recipient], record) = Sent(f, recipient, 0)
           /\ then = "wait" => Append(faxes[recipient], record) = Whole(f.pages, recipient)
  PROVE  IInv'
<1>1. /\ call = s /\ loop = "none" /\ state = "recipient" /\ WriteStream(stream \o <<record>>, then)
      /\ UNCHANGED <<docs, cover, recipient, list, f, state, loop, page, chunk, reports>>
  <2>1. s \in Sending /\ s \notin {"abort", "error"}  BY DEF Sending, Empty
  <2>2. Call(s) /\ WriteStream(stream \o <<record>>, then) /\ UNCHANGED <<loop, page, chunk, state>>
    BY DEF Sends, place
  <2> QED BY <2>1, <2>2, InCall
<1>2. recipient > 0 /\ FileReady /\ Len(faxes) = recipient /\ stream = << >>
  BY <1>1 DEF IInv, CallInv, Sending, Empty
<1>3. faxes \in Seq(Seq(Records)) /\ recipient \in Nat \ {0}
  BY <1>2, FaxAssumption DEF IInv, TypeInv
<1>4. \A i \in DOMAIN faxes : i < recipient => EndsWell(faxes[i])
  BY <1>1 DEF IInv, JobInv, Over
<1>5. stream \o <<record>> = <<record>>  BY <1>2, Pair, Zenon
<1> DEFINE block == <<record>>
<1>6. block \in Seq(Records)  OBVIOUS
<1>7. WriteStream(block, then)  BY <1>1, <1>5
<1>8. /\ faxes' \in Seq(Seq(Records)) /\ stream' \in Seq(Records) /\ Len(faxes') = recipient
      /\ faxes[recipient] \in Seq(Records)
      /\ \A i \in DOMAIN faxes' : i # recipient => i \in DOMAIN faxes /\ faxes'[i] = faxes[i]
      /\ \/ /\ faxes'[recipient] = faxes[recipient] \o block
            /\ stream' = << >> /\ call' = then
         \/ /\ faxes'[recipient] = Append(faxes[recipient], Part)
            /\ stream' = <<Torn>> /\ call' = "error"
  <2> HIDE DEF block
  <2> QED BY <1>2, <1>3, <1>6, <1>7, Written
<1>9. faxes[recipient] \o block = Append(faxes[recipient], record)
  BY <1>8, AppendIsConcat
<1>10. ~EndsWell(Append(faxes[recipient], Part))
  <2>1. Part \in Records /\ Part # EndOfStream  BY RecordsType, OnlyEnd
  <2> QED BY <1>8, <2>1, LastOfAppend DEF EndsWell
<1>11. EndsWell(Append(faxes[recipient], record)) <=> record = EndOfStream
  BY <1>8, LastOfAppend DEF EndsWell
<1>12. call' \in {then, "error"}  BY <1>8
<1>13. \A i \in DOMAIN faxes' : i < recipient => EndsWell(faxes'[i])
  <2>1. \A i \in DOMAIN faxes' : i < recipient => i # recipient  BY <1>3, <1>8
  <2> QED BY <1>4, <1>8, <2>1
<1> HIDE DEF block
<1>14. TypeInv'  BY <1>1, <1>8, <1>12 DEF IInv, TypeInv, Sending, Failing
<1>15. PlaceInv'  BY <1>1 DEF PlaceInv, Over
<1>16. JobInv'
  BY <1>1, <1>2, <1>8, <1>12, <1>13 DEF JobInv, Started, Preparing, Over, Closing
<1>17. \/ call' = then /\ stream' = << >> /\ faxes'[recipient] = Append(faxes[recipient], record)
       \/ call' = "error"
  BY <1>8, <1>9
<1>18. CallInv'
  <2>1. then = "wait" => record = EndOfStream  OBVIOUS
  <2> QED BY <1>1, <1>2, <1>8, <1>11, <1>17, <2>1 DEF CallInv, FileReady, Closing, Sending, Failing, Empty
<1>19. LoopInv'  BY <1>1 DEF LoopInv
<1>20. EndedInv'
  <2>1. EndsWell(faxes'[recipient]) => faxes'[recipient] = Whole(JobPages(docs, cover, recipient), recipient)
    <3>1. CASE record = EndOfStream
      <4>1. Append(faxes[recipient], record) = Whole(f.pages, recipient)  BY <1>1, <3>1
      <4> QED BY <1>2, <1>10, <1>17, <1>8, <1>9, <4>1 DEF FileReady
    <3>2. CASE record # EndOfStream
      BY <1>8, <1>9, <1>10, <1>11, <3>2
    <3> QED BY <3>1, <3>2
  <2> QED BY <1>1, <1>8, <2>1, LastWritten
<1>21. ReportInv'  BY <1>1, Unreported
<1> QED BY <1>14, <1>15, <1>16, <1>18, <1>19, <1>20, <1>21 DEF IInv

LEMMA SendRecordStep ==
  ASSUME IInv, SendDialStrings \/ SendFaxHeader \/ SendEndOfStream
  PROVE  IInv'
<1> DEFINE before == faxes[recipient]
<1>1. /\ recipient \in 0..Recipients /\ recipient \in Nat
      /\ DialStrings(recipient) \in Records /\ EndOfStream \in Records
  BY RecordsType, FaxAssumption DEF IInv, TypeInv
<1>2. state = "recipient" /\ call \in {"dial", "header", "eos"} => recipient > 0 /\ FileReady
  BY DEF IInv, CallInv, Sending, Empty
<1>3. recipient > 0 /\ FileReady =>
        f.pages \in Seq(PageSet) /\ f.claimed \in Nat
  <2> SUFFICES ASSUME recipient > 0, FileReady PROVE f.pages \in Seq(PageSet) /\ f.claimed \in Nat
    OBVIOUS
  <2>1. docs \in Docs /\ cover \in BOOLEAN /\ recipient \in 1..Recipients
    BY <1>1 DEF IInv, TypeInv
  <2> QED BY <2>1, Counted DEF FileReady
<1>4. CASE SendDialStrings
  <2>1. state = "recipient" /\ call = "dial" => Append(before, DialStrings(recipient)) = <<DialStrings(recipient)>>
    <3>1. state = "recipient" /\ call = "dial" => before = << >>
      BY DEF IInv, CallInv, Empty
    <3> QED BY <3>1, Pair, Zenon
  <2>2. DialStrings(recipient) # EndOfStream  BY DEF DialStrings, EndOfStream, Record
  <2>3. Sends("dial", <<DialStrings(recipient)>>, "header")  BY <1>4 DEF SendDialStrings
  <2> DEFINE record == DialStrings(recipient)
  <2> HIDE DEF record
  <2> QED BY <1>1, <2>1, <2>2, <2>3, SendsStep DEF record
<1>5. CASE SendFaxHeader
  <2>1. f.claimed \in Nat
    <3>1. call = "header" /\ state = "recipient"
      <4>1. "header" \in Sending  BY DEF Sending
      <4> QED BY <1>5, <4>1, InCall DEF SendFaxHeader, Sends
    <3> QED BY <1>2, <1>3, <3>1
  <2>2. state = "recipient" /\ call = "header" => Append(before, FaxHeader(f.claimed)) = Sent(f, recipient, 0)
    <3>1. state = "recipient" /\ call = "header" => before = <<DialStrings(recipient)>>
      BY DEF IInv, CallInv
    <3>2. Append(<<DialStrings(recipient)>>, FaxHeader(f.claimed)) = Begun(f.claimed, recipient)
      BY <1>1, <2>1, BegunType
    <3>3. recipient > 0 /\ FileReady => Sent(f, recipient, 0) = Begun(f.claimed, recipient)
      BY <1>1, <1>3, SentNone
    <3> QED BY <1>2, <3>1, <3>2, <3>3
  <2>3. FaxHeader(f.claimed) \in Records  BY <2>1, RecordsType
  <2>4. FaxHeader(f.claimed) # EndOfStream  BY DEF FaxHeader, EndOfStream, Record
  <2>5. Sends("header", <<FaxHeader(f.claimed)>>, "pages")  BY <1>5 DEF SendFaxHeader
  <2> QED BY <2>2, <2>3, <2>4, <2>5, SendsStep
<1>6. CASE SendEndOfStream
  <2>1. state = "recipient" /\ call = "eos" => Append(before, EndOfStream) = Whole(f.pages, recipient)
    <3> SUFFICES ASSUME state = "recipient", call = "eos"
                 PROVE  Append(before, EndOfStream) = Whole(f.pages, recipient)
      OBVIOUS
    <3>1. loop = "none"  BY <1>6 DEF SendEndOfStream, Sends, Call
    <3>2. f.claimed = Len(f.pages) /\ before = Sent(f, recipient, Len(f.pages))
      BY <3>1 DEF IInv, CallInv
    <3>3. f.pages \in Seq(PageSet) /\ f.claimed \in Nat  BY <1>2, <1>3
    <3>4. before \in Seq(Records)
      <4>1. Len(f.pages) \in 0..Len(f.pages)  BY <3>3
      <4> QED BY <1>1, <3>2, <3>3, <4>1, SentType
    <3>5. before \o <<EndOfStream>> = Whole(f.pages, recipient)
      BY <1>1, <3>2, <3>3, SentWhole
    <3> HIDE DEF before
    <3> QED BY <1>1, <3>4, <3>5, AppendIsConcat
  <2>2. Sends("eos", <<EndOfStream>>, "wait")  BY <1>6 DEF SendEndOfStream
  <2> QED BY <1>1, <2>1, <2>2, SendsStep
<1> QED BY <1>4, <1>5, <1>6

(* A chunk more of a page, and its end.                                    *)
LEMMA SentMore ==
  ASSUME NEW g, g.pages \in Seq(PageSet), g.claimed \in Nat, NEW r \in 0..Recipients,
         NEW k \in 1..Len(g.pages), NEW c \in Nat
  PROVE  /\ SentPart(g, r, k, c) \in Seq(Records)
         /\ Append(SentPart(g, r, k, c), Raster(g.pages[k].id, c + 1)) = SentPart(g, r, k, c + 1)
         /\ c = g.pages[k].chunks =>
              Append(SentPart(g, r, k, c), EndOfPage(g.pages[k].id)) = Sent(g, r, k)
<1> DEFINE pg == g.pages[k]
           old == Sent(g, r, k - 1)
           part == Opened(pg, c)
           x == Raster(pg.id, c + 1)
           y == EndOfPage(pg.id)
<1>1. pg \in PageSet  OBVIOUS
<1>2. old \in Seq(Records)
  <2>1. k - 1 \in 0..Len(g.pages)  OBVIOUS
  <2> QED BY <2>1, SentType
<1>3. /\ part \in Seq(Records) /\ Append(part, x) = Opened(pg, c + 1)
      /\ c = pg.chunks => Append(part, y) = RecordsOf(pg)
  <2> HIDE DEF pg
  <2> QED BY <1>1, OpenedType
<1>4. x \in Records /\ y \in Records
  <2> HIDE DEF pg
  <2> QED BY <1>1, RecordsType
<1>5. Sent(g, r, k) = old \o RecordsOf(pg)  BY SentNext
<1>6. SentPart(g, r, k, c) = old \o part /\ SentPart(g, r, k, c + 1) = old \o Opened(pg, c + 1)
  BY DEF SentPart
<1> HIDE DEF old, part, x, y, pg
<1>7. /\ old \o part \in Seq(Records)
      /\ Append(old \o part, x) = old \o Append(part, x)
      /\ Append(old \o part, y) = old \o Append(part, y)
  <2>1. part \in Seq(Records)  BY <1>3
  <2>2. old \o part \in Seq(Records)  BY ONLY <1>2, <2>1, ConcatProperties
  <2>3. ASSUME NEW z \in Records PROVE Append(old \o part, z) = old \o Append(part, z)
    BY ONLY <1>2, <2>1, <2>3
  <2> QED BY ONLY <1>4, <2>2, <2>3, Zenon
<1> USE <1>3, <1>5, <1>6, <1>7
<1>8. Append(SentPart(g, r, k, c), x) = SentPart(g, r, k, c + 1)  BY Zenon
<1>9. c = pg.chunks => Append(SentPart(g, r, k, c), y) = Sent(g, r, k)  BY Zenon
<1>10. SentPart(g, r, k, c) \in Seq(Records)  BY Zenon
<1> QED BY <1>8, <1>9, <1>10, Zenon DEF x, y, pg

(* A page that is left before its end, with nothing written of it since:   *)
(* the end of the stream will not be sent.                                 *)
LEMMA PageLeft ==
  ASSUME IInv, loop # "none", state # "dead", loop' = "page", page' = page + 1,
         call' \in {"abort", "error"}, stream' \in Seq(Records), chunk' \in Nat,
         UNCHANGED <<docs, cover, recipient, list, f, state, faxes, reports>>
  PROVE  IInv'
<1>1. Len(faxes) = recipient /\ page' > 0 /\ page \in Nat  BY Pages
<1>2. PlaceInv' /\ JobInv' /\ CallInv' /\ EndedInv' /\ ReportInv'
  BY PagesKept
<1>3. TypeInv'  BY <1>1 DEF IInv, TypeInv, Failing
<1>4. LoopInv'  BY <1>1 DEF LoopInv
<1> QED BY <1>2, <1>3, <1>4 DEF IInv

LEMMA ResumeStep ==
  ASSUME IInv, loop \in {"dialing", "connecting"}, state # "dead",
         NEW s \in {"eos", "abort", "error"}, ResumePage(s), s = "eos" => call = "eos",
         UNCHANGED <<docs, cover, recipient, list, f, state, reports>>
  PROVE  IInv'
<1> DEFINE pg == f.pages[page]
           x == Raster(pg.id, chunk + 1)
<1>1. /\ state = "recipient" /\ recipient \in 1..Recipients
      /\ f.pages \in Seq(PageSet) /\ f.claimed \in Nat
      /\ Len(faxes) = recipient /\ faxes[recipient] \in Seq(Records)
      /\ stream \in Seq(Records) /\ page \in Nat \ {0} /\ chunk \in Nat
  BY Pages
<1>2. page \in 1..Len(f.pages) /\ pg \in PageSet
  BY <1>1 DEF IInv, LoopInv
<1>3. x \in Records /\ x # EndOfStream
  <2> HIDE DEF pg
  <2> QED BY <1>1, <1>2, RecordsType, OnlyEnd
<1>4. /\ call' = s /\ stream' = Append(stream, x) /\ chunk' = chunk + 1 /\ UNCHANGED faxes
      /\ s # "eos" => loop' = "page" /\ page' = page + 1
      /\ s = "eos" => loop' = "raster" /\ page' = page
  BY DEF ResumePage, Goes
<1>5. stream' \in Seq(Records) /\ stream' # << >> /\ Last(stream') # EndOfStream /\ chunk' \in Nat
  <2> HIDE DEF x
  <2> QED BY <1>1, <1>3, <1>4, LastOfAppend, AppendProperties
<1>6. CASE s # "eos"
  <2> HIDE DEF x
  <2> QED BY <1>4, <1>5, <1>6, PageLeft
<1>7. CASE s = "eos"
  <2>1. stream = << >> /\ faxes[recipient] = SentPart(f, recipient, page, chunk)
    BY <1>1, <1>7 DEF IInv, LoopInv
  <2>2. stream' = <<x>>
    <3> HIDE DEF x
    <3> QED BY <1>4, <2>1, Pair, Zenon
  <2>3. recipient \in 0..Recipients  BY <1>1
  <2>4. Append(SentPart(f, recipient, page, chunk), x) = SentPart(f, recipient, page, chunk + 1)
    <3>1. Append(SentPart(f, recipient, page, chunk), Raster(f.pages[page].id, chunk + 1))
            = SentPart(f, recipient, page, chunk + 1)
      <4>1. /\ f.pages \in Seq(PageSet) /\ f.claimed \in Nat /\ recipient \in 0..Recipients
            /\ page \in 1..Len(f.pages) /\ chunk \in Nat
        BY <1>1, <1>2, <2>3
      <4> QED BY ONLY <4>1, SentMore
    <3> QED BY <3>1
  <2>5. faxes[recipient] \o stream' = SentPart(f, recipient, page, chunk + 1)
    <3> HIDE DEF x
    <3> QED BY <1>1, <1>3, <2>1, <2>2, <2>4, AppendIsConcat
  <2> HIDE DEF x, pg
  <2>6. PlaceInv' /\ JobInv' /\ CallInv' /\ EndedInv' /\ ReportInv'
    BY <1>4, <1>7, PagesKept
  <2>7. TypeInv'  BY <1>1, <1>4, <1>5, <1>7 DEF IInv, TypeInv, Sending
  <2>8. LoopInv'
    <3>1. /\ loop' = "raster" /\ page' > 0 /\ page' \in DOMAIN f'.pages /\ Len(faxes') = recipient'
          /\ faxes'[recipient'] \o stream' = SentPart(f', recipient', page', chunk')
      BY <1>1, <1>2, <1>4, <1>7, <2>5
    <3> QED BY <1>5, <3>1 DEF LoopInv
  <2> QED BY <2>6, <2>7, <2>8 DEF IInv
<1> QED BY <1>6, <1>7

LEMMA WhileStep ==
  ASSUME IInv, WhileDialing \/ WhileConnecting
  PROVE  IInv'
<1>1. /\ loop \in {"dialing", "connecting"} /\ state # "dead"
      /\ UNCHANGED <<docs, cover, recipient, list, f, state, reports>>
  BY DEF WhileDialing, WhileConnecting, InPages, job
<1>2. call \in {"eos", "abort", "error"}  BY <1>1, Pages
<1>3. CASE PollAgain
  <2>1. CASE UNCHANGED <<call, place, stream, faxes>>
    BY <1>1, <2>1, Quiet DEF core, place
  <2>2. CASE ResumePage("abort") \/ ResumePage("error")
    BY <1>1, <2>2, ResumeStep
  <2> QED BY <1>3, <2>1, <2>2 DEF PollAgain
<1>4. CASE ResumePage(call)
  <2>1. CASE call = "eos"  BY <1>1, <1>4, <2>1, ResumeStep
  <2>2. CASE call = "abort"  BY <1>1, <1>4, <2>2, ResumeStep
  <2>3. CASE call = "error"  BY <1>1, <1>4, <2>3, ResumeStep
  <2> QED BY <1>2, <2>1, <2>2, <2>3
<1>5. CASE /\ loop = "dialing" /\ call \notin {"abort", "error"} /\ loop' = "connecting"
           /\ UNCHANGED <<page, chunk, stream, faxes, call>>
  <2>1. call = "eos" /\ Len(faxes) = recipient /\ page > 0 /\ state = "recipient"
    BY <1>1, <1>2, <1>5, Pages
  <2>2. PlaceInv' /\ JobInv' /\ CallInv' /\ EndedInv' /\ ReportInv'
    BY <1>1, <1>5, <2>1, PagesKept
  <2>3. TypeInv'  BY <1>1, <1>5 DEF IInv, TypeInv
  <2>4. LoopInv'  BY <1>1, <1>5, <2>1 DEF IInv, LoopInv
  <2> QED BY <2>2, <2>3, <2>4 DEF IInv
<1> QED BY <1>3, <1>4, <1>5 DEF WhileDialing, WhileConnecting, InPages

LEMMA SendChunkStep ==
  ASSUME IInv, SendChunk
  PROVE  IInv'
<1> DEFINE pg == f.pages[page]
           last == chunk = pg.chunks
           y == EndOfPage(pg.id)
           block == IF last THEN Append(stream, y) ELSE stream
<1>1. /\ loop = "raster" /\ state # "dead"
      /\ UNCHANGED <<docs, cover, recipient, list, f, state, reports>>
  BY DEF SendChunk, InPages, job
<1>2. /\ state = "recipient" /\ call \in {"eos", "abort", "error"} /\ recipient \in 1..Recipients
      /\ FileReady /\ f.pages \in Seq(PageSet) /\ f.claimed \in Nat
      /\ Len(faxes) = recipient /\ faxes \in Seq(Seq(Records)) /\ faxes[recipient] \in Seq(Records)
      /\ stream \in Seq(Records) /\ page \in Nat \ {0} /\ chunk \in Nat
      /\ \A i \in DOMAIN faxes : i < recipient => EndsWell(faxes[i])
  BY <1>1, Pages
<1>3. /\ page \in 1..Len(f.pages) /\ pg \in PageSet
      /\ stream # << >> /\ Last(stream) # EndOfStream
  BY <1>1, <1>2 DEF IInv, LoopInv
<1>4. y \in Records /\ y # EndOfStream
  <2> HIDE DEF pg
  <2> QED BY <1>3, RecordsType, OnlyEnd
<1>5. \/ call' \in {"abort", "error"} /\ loop' = "page" /\ page' = page + 1 /\ UNCHANGED <<stream, chunk, faxes>>
      \/ /\ WriteStream(block, call)
         /\ IF last \/ stream' # << >> THEN loop' = "page" /\ page' = page + 1 /\ UNCHANGED chunk
                                       ELSE loop' = "dialing" /\ UNCHANGED <<page, chunk>>
  BY DEF SendChunk, NextPage, Goes
<1>6. CASE call' \in {"abort", "error"} /\ loop' = "page" /\ page' = page + 1 /\ UNCHANGED <<stream, chunk, faxes>>
  BY <1>1, <1>2, <1>6, PageLeft
<1>7. CASE /\ WriteStream(block, call)
           /\ IF last \/ stream' # << >> THEN loop' = "page" /\ page' = page + 1 /\ UNCHANGED chunk
                                         ELSE loop' = "dialing" /\ UNCHANGED <<page, chunk>>
  <2>1. block \in Seq(Records) /\ block # << >> /\ Last(block) # EndOfStream
    <3>1. /\ Append(stream, y) \in Seq(Records) /\ Append(stream, y) # << >>
          /\ Last(Append(stream, y)) # EndOfStream
      <4> HIDE DEF y
      <4> QED BY <1>2, <1>4, LastOfAppend, AppendProperties
    <3> HIDE DEF y, last
    <3> QED BY <1>2, <1>3, <3>1
  <2>2. recipient \in Nat \ {0}  BY <1>2
  <2>3. /\ faxes' \in Seq(Seq(Records)) /\ stream' \in Seq(Records) /\ Len(faxes') = recipient
        /\ \A i \in DOMAIN faxes' : i # recipient => i \in DOMAIN faxes /\ faxes'[i] = faxes[i]
        /\ \/ /\ faxes'[recipient] = faxes[recipient] \o block
              /\ stream' = << >> /\ call' = call
           \/ /\ faxes'[recipient] = Append(faxes[recipient], Part)
              /\ stream' = <<Torn>> /\ call' = "error"
    <3> HIDE DEF block
    <3>1. WriteStream(block, call)  BY <1>7
    <3> QED BY <1>2, <2>1, <2>2, <3>1, Written, Zenon
  <2>4. ~EndsWell(faxes'[recipient])
    <3>1. ~EndsWell(faxes[recipient] \o block) /\ ~EndsWell(Append(faxes[recipient], Part))
      <4> HIDE DEF block
      <4> QED BY <1>2, <2>1, Unended
    <3> HIDE DEF block
    <3> QED BY <2>3, <3>1, Zenon
  <2>5. \A i \in DOMAIN faxes' : i < recipient => EndsWell(faxes'[i])
    <3>1. \A i \in DOMAIN faxes' : i < recipient => i # recipient  BY <2>2, <2>3
    <3> QED BY <1>2, <2>3, <3>1
  <2>6. /\ call' \in {"eos", "abort", "error"} /\ loop' \in {"page", "dialing"}
        /\ page' \in Nat /\ page' > 0 /\ chunk' \in Nat /\ stream' \in {<< >>, <<Torn>>}
        /\ loop' = "dialing" => page' = page
    <3>1. call' \in {call, "error"} /\ stream' \in {<< >>, <<Torn>>}  BY <2>3
    <3>2. page + 1 \in Nat /\ page + 1 > 0 /\ page > 0 /\ page \in Nat  BY <1>2
    <3>3. /\ loop' \in {"page", "dialing"} /\ page' \in {page, page + 1} /\ chunk' = chunk
          /\ loop' = "dialing" => page' = page
      <4> HIDE DEF last, block
      <4> QED BY ONLY <1>7
    <3> HIDE DEF last, block
    <3> QED BY <1>2, <3>1, <3>2, <3>3
  <2>7. call' = "eos" =>
          /\ loop' = "page" => page' <= Len(f.pages) + 1 /\ faxes'[recipient] = Sent(f, recipient, page' - 1)
          /\ loop' = "dialing" => faxes'[recipient] = SentPart(f, recipient, page, chunk)
          /\ stream' = << >>
    <3> SUFFICES ASSUME call' = "eos"
                 PROVE  /\ loop' = "page" => page' <= Len(f.pages) + 1 /\ faxes'[recipient] = Sent(f, recipient, page' - 1)
                        /\ loop' = "dialing" => faxes'[recipient] = SentPart(f, recipient, page, chunk)
                        /\ stream' = << >>
      OBVIOUS
    <3>1. /\ call = "eos" /\ stream' = << >> /\ faxes'[recipient] = faxes[recipient] \o block
      BY <2>3
    <3>2. faxes[recipient] \o stream = SentPart(f, recipient, page, chunk)
      BY <1>1, <1>2, <3>1 DEF IInv, LoopInv
    <3>3. recipient \in 0..Recipients  BY <1>2
    <3>4. CASE last
      <4>1. faxes'[recipient] = faxes[recipient] \o Append(stream, y)  BY <3>1, <3>4
      <4>2. Append(SentPart(f, recipient, page, chunk), y) = Sent(f, recipient, page)
        <5>1. chunk = f.pages[page].chunks =>
                Append(SentPart(f, recipient, page, chunk), EndOfPage(f.pages[page].id)) = Sent(f, recipient, page)
          <6>1. /\ f.pages \in Seq(PageSet) /\ f.claimed \in Nat /\ recipient \in 0..Recipients
                /\ page \in 1..Len(f.pages) /\ chunk \in Nat
            BY <1>2, <1>3, <3>3
          <6> QED BY ONLY <6>1, SentMore
        <5> QED BY <3>4, <5>1
      <4>3. faxes[recipient] \o Append(stream, y) = Append(faxes[recipient] \o stream, y)
        <5> HIDE DEF y
        <5> DEFINE before == faxes[recipient]
        <5>1. before \in Seq(Records) /\ stream \in Seq(Records) /\ y \in Records
          BY <1>2, <1>4
        <5> HIDE DEF before
        <5>2. Append(before \o stream, y) = before \o Append(stream, y)
          BY ONLY <5>1
        <5> QED BY <5>2 DEF before
      <4>4. faxes'[recipient] = Sent(f, recipient, page)
        <5> HIDE DEF y
        <5> QED BY <3>2, <4>1, <4>2, <4>3, Zenon
      <4>5. loop' = "page" /\ page' = page + 1  BY <1>7, <3>4
      <4>6. page' - 1 = page /\ page' <= Len(f.pages) + 1
        <5>1. Len(f.pages) \in Nat  BY <1>2
        <5> QED BY <1>3, <4>5, <5>1
      <4> QED BY <3>1, <4>4, <4>5, <4>6
    <3>5. CASE ~last
      <4>1. faxes'[recipient] = SentPart(f, recipient, page, chunk)  BY <3>1, <3>2, <3>5
      <4>2. loop' = "dialing"
        <5> HIDE DEF last
        <5> QED BY <1>7, <3>1, <3>5
      <4> QED BY <3>1, <4>1, <4>2
    <3> QED BY <3>4, <3>5
  <2> HIDE DEF block, last, y, pg
  <2>8. TypeInv'
    BY <1>1, <2>3, <2>6 DEF IInv, TypeInv, Sending, Failing
  <2>9. PlaceInv'  BY <1>1, <1>2, <2>6 DEF PlaceInv, Over
  <2>10. JobInv'
    BY <1>1, <1>2, <2>3, <2>5, <2>6 DEF JobInv, Started, Preparing, Over, Closing
  <2>11. CallInv'
    <3>1. loop' # "none" /\ recipient > 0  BY <2>2, <2>6
    <3> QED BY <1>1, <1>2, <2>3, <2>6, <3>1 DEF CallInv, FileReady, Closing, Sending, Empty
  <2>12. LoopInv'
    <3>1. loop' = "dialing" => page' \in DOMAIN f'.pages /\ chunk' = chunk
      BY <1>1, <1>2, <1>3, <1>7, <2>6
    <3> QED BY <1>1, <2>3, <2>6, <2>7, <3>1 DEF LoopInv
  <2>13. EndedInv'  BY <1>1, <2>3, <2>4, LastWritten
  <2>14. ReportInv'  BY <1>1, Unreported
  <2> QED BY <2>8, <2>9, <2>10, <2>11, <2>12, <2>13, <2>14 DEF IInv
<1> QED BY <1>5, <1>6, <1>7

-----------------------------------------------------------------------------
(* The theorems.                                                           *)

LEMMA NextIInv == IInv /\ [Next]_vars => IInv'
<1> SUFFICES ASSUME IInv, [Next]_vars PROVE IInv' OBVIOUS
<1>1. CASE Aborted \/ Success \/ Failed \/ Busy  BY <1>1, ReportStep
<1>2. CASE ReadSenderInfo \/ PreRender \/ CountPages  BY <1>2, StartStep
<1>3. CASE NextRecipient  BY <1>3, NextRecipientStep
<1>4. CASE CoverPage  BY <1>4, CoverPageStep
<1>5. CASE SingleFile \/ MergeFiles  BY <1>5, PrepareStep
<1>6. CASE SendFax  BY <1>6, SendFaxStep
<1>7. CASE Cleanup  BY <1>7, CleanupStep
<1>8. CASE Abort \/ CallError \/ DeviceBusy  BY <1>8, CallEndsStep
<1>9. CASE DeviceOpen  BY <1>9, DeviceOpenStep
<1>10. CASE SetToken \/ EarlyOpening \/ CheckIdle \/ StartRequest \/ SetParams \/ LateOpening
  BY <1>10, EmptyStep
<1>11. CASE SendDialStrings \/ SendFaxHeader \/ SendEndOfStream  BY <1>11, SendRecordStep
<1>12. CASE SendPages  BY <1>12, SendPagesStep
<1>13. CASE WaitForComplete  BY <1>13, WaitStep
<1>14. CASE ResetToken \/ CloseSession  BY <1>14, CloseStep
<1>15. CASE LeavePages  BY <1>15, LeavePagesStep
<1>16. CASE BeginPage  BY <1>16, BeginPageStep
<1>17. CASE PageUnread  BY <1>17, PageUnreadStep
<1>18. CASE SendChunk  BY <1>18, SendChunkStep
<1>19. CASE WhileDialing \/ WhileConnecting  BY <1>19, WhileStep
<1>20. CASE SeeReport \/ Interrupt \/ Join \/ InterruptJoin
  <2>1. UNCHANGED core
    BY <1>20 DEF SeeReport, Interrupt, Join, InterruptJoin, JoinThread, ThreadUnchanged, job, place, core
  <2> QED BY <2>1, Quiet
<1>21. CASE UNCHANGED vars
  <2>1. UNCHANGED core  BY <1>21 DEF vars, core
  <2> QED BY <2>1, Quiet
<1> QED
  BY <1>1, <1>2, <1>3, <1>4, <1>5, <1>6, <1>7, <1>8, <1>9, <1>10, <1>11, <1>12, <1>13, <1>14, <1>15,
     <1>16, <1>17, <1>18, <1>19, <1>20, <1>21, Zenon DEF Next, Thread

LEMMA Invariance == Spec => []IInv
<1>1. Init => IInv  BY InitIInv
<1>2. IInv /\ [Next]_vars => IInv'  BY NextIInv
<1> QED BY <1>1, <1>2, PTL DEF Spec

(* For every job, recipient, device and moment of a cancel or a failure: a *)
(* stream that ended is its recipient's fax, page by page, and no more.    *)
THEOREM EndedIsWholeAlways == Spec => []EndedIsWhole
<1>1. IInv => EndedIsWhole
  <2>1. ASSUME IInv, NEW i \in DOMAIN faxes, faxes[i] # << >>, Last(faxes[i]) = EndOfStream
        PROVE  faxes[i] = WholeFax(i)
    <3>1. EndsWell(faxes[i])  BY <2>1 DEF EndsWell
    <3>2. faxes[i] = Whole(JobPages(docs, cover, i), i)  BY <2>1, <3>1 DEF IInv, EndedInv
    <3> QED BY <3>2, WholeIs
  <2> QED BY <2>1 DEF EndedIsWhole
<1> QED BY <1>1, Invariance, PTL

(* STATUS_COMPLETED is reported only of a job whose every recipient's      *)
(* stream was ended, one call a recipient.                                 *)
THEOREM CompletedIsSentAlways == Spec => []CompletedIsSent
<1>1. IInv => CompletedIsSent  BY DEF IInv, ReportInv, CompletedIsSent
<1> QED BY <1>1, Invariance, PTL

=============================================================================
