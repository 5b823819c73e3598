----------------------------- MODULE RasterPage -----------------------------
(***************************************************************************)
(* The hpcups filter: rows of a CUPS raster on their way to the paper.     *)
(* HPCupsFilter::processRasterData hands each row to Job::SendRasters,     *)
(* which counts blank rows and turns them into one Y command; the others   *)
(* go down a pipeline of processors.  For the language pcl3gui2 that is    *)
(* ErnieFilter (keeps four rows, smooths them, lets them go together),     *)
(* Mode10 (colour, as changes to the row before), Mode9 (black, likewise)  *)
(* and RasterSender; for ljcolor it is Mode3 and RasterSender.  The        *)
(* encapsulator writes PCL commands through a buffer.                      *)
(*                                                                         *)
(* Host and printer each keep a seed row, the row the next one is a change *)
(* of, and nothing in the stream says what the host's seed is: every event *)
(* that resets one must reset the other.                                   *)
(*                                                                         *)
(* A row is named by what it looks like on paper: the smoothing moves a    *)
(* pixel by less than its threshold, so it does not change the name; what  *)
(* an encoded row changes is kept as the pair [from, to].                  *)
(***************************************************************************)
EXTENDS Integers, SequencesExt

CONSTANTS
  Rows,          \* the rows of a page that are not blank: [color, black] records
  LongRows,      \* colours whose encoded row is longer than the command buffer
  MaxRows,       \* bound: rows in the job
  MaxPages,      \* bound: pages in the job
  BufSize,       \* commands pcl_buffer holds
  RestartEvery   \* rows between two restarts of ljcolor (1200 in the code)

\* m_pBlankRaster, 0xFF in every byte; a black row of zeros; a NULL pointer.
White == "white"
Clear == "clear"
NoRow == "null"
Blank == [color |-> White, black |-> Clear]

ASSUME RasterAssumption ==
  /\ \A r \in Rows : /\ r = [color |-> r.color, black |-> r.black] /\ r # Blank
                     /\ NoRow \notin {r.color, r.black}
  /\ MaxRows \in Nat /\ MaxPages \in Nat /\ BufSize \in Nat \ {0} /\ RestartEvery \in Nat \ {0}

VARIABLES
  lang,          \* the encapsulator: "pcl3gui2" or "ljcolor"
  krgb,          \* CUPS_CSPACE_RGBW: the rows have a black plane of their own
  phase,         \* "between" pages, in a "page", or "closed"
  given,         \* the pages the raster has given so far, each a sequence of rows
  skipcount,     \* Job: blank rows not yet sent
  dataSent,      \* Job: m_bDataSent
  host,          \* the pipeline and the encapsulator
  printer        \* the printer (external)

filterVars == <<lang, krgb, phase, given, skipcount, dataSent, host, printer>>

-----------------------------------------------------------------------------
(* The printer *)

\* Modelled from the commands the encapsulators send: starting raster graphics,
\* ending it, a Y offset and a form feed clear the seed rows; a row of no bytes
\* repeats its seed; changes made to another seed than the printer's are garbage.
Same == [from |-> NoRow, to |-> NoRow]
Garbage == "garbage"
Decoded(data, seed) ==
  IF data = Same THEN seed ELSE IF data.from = seed THEN data.to ELSE Garbage

SeedsOf(p, c, k) == [p EXCEPT !.colorSeed = c, !.blackSeed = k]
ColorZero == IF lang = "ljcolor" THEN Clear ELSE White
SeedsCleared(p) == SeedsOf(p, ColorZero, Clear)

Obeyed(p, c) ==
  CASE c.cmd = "start" -> SeedsCleared(p)
    [] c.cmd = "Y"     -> [SeedsCleared(p) EXCEPT !.sheet = @ \o [i \in 1..c.n |-> Blank]]
    [] c.cmd = "V"     -> [p EXCEPT !.blackSeed = Decoded(c.data, @)]
    [] c.cmd = "W"     -> LET color == Decoded(c.data, p.colorSeed) IN
                          [p EXCEPT !.colorSeed = color,
                                    !.sheet = Append(@, [color |-> color, black |-> p.blackSeed])]
    [] c.cmd = "FF"    -> [SeedsCleared(p) EXCEPT !.pages = Append(@, p.sheet), !.sheet = << >>]
    [] c.cmd = "UEL"   -> [p EXCEPT !.open = FALSE]

\* What the printer does after the end of the job is no longer part of it.
Take(p, c) == IF p.open THEN Obeyed(p, c) ELSE p

-----------------------------------------------------------------------------
(* The encapsulator's buffer.  The operators below work on the pair        *)
(* s = [h |-> host, p |-> printer].                                        *)

Direct(s, c) == [s EXCEPT !.p = Take(@, c)]

\* Encapsulator::Cleanup
Cleanup(s) == [s EXCEPT !.p = FoldLeft(Take, @, s.h.buf), !.h.buf = << >>]

IsLong(c) == c.cmd = "W" /\ c.data # Same /\ c.data.to \in LongRows

\* Encapsulator::Send: a full buffer goes out first, a command longer than the
\* buffer goes out directly.
Send(s, c) ==
  LET room == IF IsLong(c) \/ Len(s.h.buf) >= BufSize THEN Cleanup(s) ELSE s
  IN IF IsLong(c) THEN Direct(room, c) ELSE [room EXCEPT !.h.buf = Append(@, c)]

(* Mutant: the seed row outlives a flush. *)
FlushColor_KeepSeed(s) == [s EXCEPT !.h.colorSeeded = FALSE]

\* Mode3::Flush, Mode9::Flush, Mode10::Flush: the seed row is cleared if a row
\* has gone through since the last time (the color seed is that of the one
\* color compressor the language has).
FlushColor(s) ==
  IF s.h.colorSeeded THEN [s EXCEPT !.h.colorSeeded = FALSE, !.h.colorSeed = ColorZero] ELSE s
FlushBlack(s) ==
  IF s.h.blackSeeded THEN [s EXCEPT !.h.blackSeeded = FALSE, !.h.blackSeed = Clear] ELSE s

-----------------------------------------------------------------------------
(* The pipeline *)

Change(seed, row) == IF seed = row THEN Same ELSE [from |-> seed, to |-> row]

\* Mode9::Process and Pcl3Gui2::Encapsulate for the black plane.  Until a first
\* black row, a row without black data says nothing of the seed.
SendBlack(s, black) ==
  LET row == IF black = NoRow THEN Clear ELSE black
      skip == black = NoRow /\ ~s.h.resetSeedRow
      cmd == [cmd |-> "V", data |-> IF skip THEN Same ELSE Change(s.h.blackSeed, row)]
      coded == [s EXCEPT !.h.blackSeeded = TRUE,
                         !.h.blackSeed = IF skip THEN @ ELSE row,
                         !.h.resetSeedRow = @ \/ black # NoRow]
  IN Send(coded, cmd)

\* Mode10::Process or Mode3::Process, and the encapsulator's W command.
SendColor(s, color) ==
  Send([s EXCEPT !.h.colorSeeded = TRUE, !.h.colorSeed = color],
       [cmd |-> "W", data |-> Change(s.h.colorSeed, color)])

\* LJColor::Encapsulate ends and starts raster graphics every RestartEvery rows
\* of the job and, from inside the pipeline, clears the seed of the compressor
\* that has just delivered this row.
Restarted(s) ==
  IF s.h.yPos % RestartEvery = 0 THEN Send(FlushColor(s), [cmd |-> "start"]) ELSE s
LJEncapsulate(s, row) ==
  Restarted(SendColor([s EXCEPT !.h.yPos = @ + 1], row.color))

\* ErnieFilter::NextOutputRaster and what follows it in the pipeline.
NextOutput(s) ==
  LET i == s.h.delivered
      sent == SendColor(SendBlack(s, s.h.blackRows[i]), s.h.colorRows[i])
  IN [sent EXCEPT !.h.ready = @ - 1, !.h.delivered = (i + 1) % 4]
Drained(s) == FoldLeft(LAMBDA t, i : NextOutput(t), s, [i \in 1..s.h.ready |-> i])

\* ErnieFilter::Process with submitRowToFilter
Ernie(s, row) ==
  LET n == s.h.buffered + 1
      kept == [s EXCEPT !.h.blackRows[s.h.rowIndex] = row.black,
                        !.h.rowIndex = (@ + 1) % 4,
                        !.h.colorRows[s.h.buffered] = row.color,
                        !.h.buffered = n % 4,
                        !.h.delivered = 0,
                        !.h.ready = IF n = 4 THEN 4 ELSE 0]
  IN IF n = 4 THEN Drained(kept) ELSE kept

(* Mutant: the black rows go on where they were. *)
ErnieReleased_KeepIndex(s) ==
  [s EXCEPT !.h.delivered = 0, !.h.ready = s.h.buffered, !.h.buffered = 0]

\* ErnieFilter::Flush
ErnieReleased(s) ==
  [s EXCEPT !.h.delivered = 0, !.h.ready = s.h.buffered, !.h.buffered = 0, !.h.rowIndex = 0]

\* Pipeline::Execute and Pipeline::Flush: a processor is emptied into the next
\* one before that one is flushed in its turn.
Execute(s, row) == IF lang = "ljcolor" THEN LJEncapsulate(s, row) ELSE Ernie(s, row)
Flush(s) ==
  IF lang = "ljcolor" THEN FlushColor(s) ELSE FlushBlack(FlushColor(Drained(ErnieReleased(s))))

-----------------------------------------------------------------------------
(* Job and HPCupsFilter *)

CanSkipRasters == lang = "pcl3gui2"
State == [h |-> host, p |-> printer]
Becomes(s) == host' = s.h /\ printer' = s.p

\* The skipped rows go out as one Y command, behind every row still in the pipeline.
Unskipped(s) ==
  IF skipcount > 0 THEN Send(Flush(s), [cmd |-> "Y", n |-> skipcount]) ELSE s

\* HPCupsFilter::isBlankRaster and extractBlackPixels: the rasters SendRasters
\* gets; only an RGBW raster has a black one.
RasterOf(row) == [color |-> row.color, black |-> IF krgb THEN row.black ELSE NoRow]
BlankRaster == [color |-> White, black |-> NoRow]

\* Job::SendRasters with data
SendRasters(s, raster) == Execute(Unskipped(s), raster)

RowsGiven == FoldLeft(LAMBDA n, page : n + Len(page), 0, given)

Gives(row) ==
  /\ phase = "page" /\ RowsGiven < MaxRows
  /\ given' = [given EXCEPT ![Len(given)] = Append(@, row)]
  /\ UNCHANGED <<lang, krgb, phase>>

\* A row of the raster that has something on it.
DataRow ==
  \E row \in Rows :
    /\ krgb \/ row.black = Clear
    /\ Gives(row)
    /\ Becomes(SendRasters(State, RasterOf(row)))
    /\ skipcount' = 0 /\ dataSent' = TRUE

\* A blank row, counted where rows can be skipped ...
SkippedRow ==
  /\ CanSkipRasters
  /\ Gives(Blank)
  /\ skipcount' = skipcount + 1
  /\ UNCHANGED <<dataSent, host, printer>>

\* ... and sent as a white one where they cannot.
BlankRow ==
  /\ ~CanSkipRasters
  /\ Gives(Blank)
  /\ Becomes(SendRasters(State, BlankRaster))
  /\ skipcount' = 0 /\ dataSent' = TRUE

\* Pcl3Gui2::StartPage sends its header and leaves the start of raster graphics
\* in the buffer; LJColor::StartPage sends nothing.
StartPage ==
  /\ phase = "between" /\ Len(given) < MaxPages
  /\ phase' = "page"
  /\ given' = Append(given, << >>)
  /\ Becomes(IF lang = "pcl3gui2" THEN Send(Cleanup(State), [cmd |-> "start"]) ELSE State)
  /\ UNCHANGED <<lang, krgb, skipcount, dataSent>>

\* Pcl3Gui2 inherits Encapsulator::FormFeed; LJColor empties the buffer and
\* sends the form feed past it.
FormFeed(s) ==
  IF lang = "ljcolor" THEN Direct(Cleanup(s), [cmd |-> "FF"])
                      ELSE Cleanup(Send(s, [cmd |-> "FF"]))

\* Job::NewPage: a page of nothing but blank rows gets one white row, so that
\* it is printed at all; blank rows at the end of a page are dropped.
NewPage ==
  /\ phase = "page"
  /\ phase' = "between"
  /\ LET s == IF ~dataSent /\ skipcount > 0 THEN Execute(State, BlankRaster) ELSE State
     IN Becomes(FormFeed(Flush(s)))
  /\ skipcount' = 0 /\ dataSent' = FALSE
  /\ UNCHANGED <<lang, krgb, given>>

\* HPCupsFilter::closeFilter, Job::Cleanup and EndJob, which writes past the buffer.
EndJob ==
  /\ phase = "between"
  /\ phase' = "closed"
  /\ Becomes(Direct(Cleanup(State), [cmd |-> "UEL"]))
  /\ UNCHANGED <<lang, krgb, given, skipcount, dataSent>>

\* Job::Init: StartJob and Configure.  The job header of ljcolor starts raster
\* graphics; the compressors' seed rows start cleared; LJColor never sets the
\* row counter m_iYPos it counts up from.
FilterInit ==
  /\ lang \in {"pcl3gui2", "ljcolor"}
  /\ krgb \in BOOLEAN /\ (krgb => lang = "pcl3gui2")
  /\ phase = "between" /\ given = << >>
  /\ skipcount = 0 /\ dataSent = FALSE
  /\ \E y \in IF lang = "ljcolor" THEN 0 .. RestartEvery - 1 ELSE {0} :
     host = [buf |-> << >>, yPos |-> y,
             colorSeed |-> ColorZero, colorSeeded |-> FALSE,
             blackSeed |-> Clear, blackSeeded |-> FALSE, resetSeedRow |-> FALSE,
             colorRows |-> [i \in 0..3 |-> NoRow], blackRows |-> [i \in 0..3 |-> NoRow],
             rowIndex |-> 0, buffered |-> 0, ready |-> 0, delivered |-> 0]
  /\ printer = [open |-> TRUE, pages |-> << >>, sheet |-> << >>,
                colorSeed |-> ColorZero, blackSeed |-> Clear]

FilterNext == StartPage \/ DataRow \/ SkippedRow \/ BlankRow \/ NewPage \/ EndJob

FilterSpec == FilterInit /\ [][FilterNext]_filterVars

-----------------------------------------------------------------------------
(* Properties *)

\* The paper `shown' is all of the page `page': what is missing at its end is
\* blank.
IsAll(shown, page) ==
  /\ IsPrefix(shown, page)
  /\ \A i \in Len(shown) + 1 .. Len(page) : page[i] = Blank

\* Every row lies where the raster has it, with its own colors and its own
\* black, whatever was skipped, kept back for smoothing or sent as a change of
\* another row before it; an ejected page lacks none of its rows, and a job that
\* has ended has ejected every page (Job.cpp SendRasters and NewPage,
\* ErnieFilter.cpp, Pipeline.cpp, Encapsulator.cpp).
PageAsGiven ==
  /\ Len(printer.pages) <= Len(given)
  /\ \A n \in DOMAIN printer.pages : IsAll(printer.pages[n], given[n])
  /\ printer.sheet # << >> => IsPrefix(printer.sheet, given[Len(printer.pages) + 1])
  /\ phase = "closed" => Len(printer.pages) = Len(given)

\* When the printer has taken what is in the buffer, its seed rows are those the
\* host's compressors change next (Mode3.cpp, Mode9.cpp and Mode10.cpp Flush
\* against SendCAPy, FormFeed and the restart of LJColor::Encapsulate).
SeedsAgree ==
  LET p == FoldLeft(Take, printer, host.buf) IN
  phase = "page" => p.colorSeed = host.colorSeed /\ p.blackSeed = host.blackSeed

=============================================================================
