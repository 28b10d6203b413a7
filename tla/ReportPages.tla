----------------------------- MODULE ReportPages -----------------------------
(***************************************************************************)
(* Report pages over the database of ReportSnapshot: the API's choice of a *)
(* revision for a request (reporting._revision), the browser's assembly of *)
(* one page out of several requests (api.ts loadReport), and the undated   *)
(* rows that the dashboard adds to it later.                               *)
(*                                                                         *)
(* A request reads in one REPEATABLE READ transaction, so the answer is    *)
(* computed in one step; its delivery is a step of its own only where the  *)
(* browser does not cancel a superseded request.  Filters, periods and     *)
(* identities are left out: they do not change which revision answers.  A  *)
(* detail and a CSV export are left out as well, each being a single       *)
(* answer for the newest revision.                                         *)
(***************************************************************************)
EXTENDS ReportSnapshot

CONSTANTS
  Readers,
  Parts,      \* the pinned requests of a view, the summary not among them
  Nothing     \* "no cost lines", and in the contract "no page"

ASSUME PartsAssumption == "summary" \notin Parts /\ Nothing \notin Facts

VARIABLES
  load,       \* load[r]: the page being loaded
  page,       \* page[r]: the page on screen: its parts, the rows that were added
              \* to it, and the stray ones: asked for from a page before it
  more        \* more[r]: a request for further undated rows, if any, and whether
              \* the page it was made from has been replaced since

readerVars == <<load, page, more>>
pageVars == <<facts, generation, revisions, txn, load, page, more>>

\* An answer names the revision whose cost lines it carries (0: there is none),
\* what those lines were calculated from, and the fact rows it joined them to.
Answer == [rev : Nat, lines : Facts \cup {Nothing}, live : Facts]

PagePart == [part : Parts \cup {"summary"}, answer : Answer]

NoLoad == [phase |-> "idle", attempt |-> 0, pin |-> 0, got |-> {}]
NoPage == [got |-> {}, added |-> {}, stray |-> {}]
NoMore == [phase |-> "idle", pin |-> 0, rows |-> {}, late |-> FALSE]

PagesTypeOK ==
  /\ TypeOK
  /\ load \in [Readers -> [phase : {"idle", "summary", "parts"}, attempt : 0..2,
                           pin : Nat, got : SUBSET PagePart]]
  /\ page \in [Readers -> [got : SUBSET PagePart, added : SUBSET Answer,
                           stray : SUBSET Answer]]
  /\ more \in [Readers -> [phase : {"idle", "asked", "answered"}, pin : Nat,
                           rows : SUBSET Answer, late : BOOLEAN]]

-----------------------------------------------------------------------------
\* Mutation: the marker is not compared with the generation.
AnswersWhateverTheMarker(pin) ==
  {[rev |-> s.created, lines |-> s.content, live |-> facts] :
     s \in {q \in revisions : IsNewest(q, revisions) /\ pin \in {0, q.created}}}

\* Mutation: a pinned request trusts its revision and skips the marker.
AnswersTrustingThePin(pin) ==
  {[rev |-> s.created, lines |-> s.content, live |-> facts] :
     s \in {q \in revisions : /\ IsNewest(q, revisions)
                              /\ pin \in {0, q.created}
                              /\ (pin = 0 => q.marker = generation)}}

(* reporting._revision.  The set is empty when the request is refused (409). *)
Answers(pin) ==
  {[rev |-> s.created, lines |-> s.content, live |-> facts] :
     s \in {q \in revisions : /\ IsNewest(q, revisions)
                              /\ pin \in {0, q.created}
                              /\ q.marker = generation}}
  \cup {[rev |-> 0, lines |-> Nothing, live |-> facts] :
     z \in {n \in {0} : revisions = {} /\ pin = 0}}

(* One load of a view. *)

\* refresh() cancels the load in flight and starts another.
Refresh(r) ==
  /\ load' = [load EXCEPT ![r] = [NoLoad EXCEPT !.phase = "summary", !.attempt = 1]]
  /\ UNCHANGED <<page, more>>

\* A conflict repeats the whole load once; the second one is an error message
\* over the page that is on screen.
Conflict(r) ==
  load' = [load EXCEPT ![r] =
             IF load[r].attempt = 1
             THEN [NoLoad EXCEPT !.phase = "summary", !.attempt = 2]
             ELSE NoLoad]

GetSummary(r) ==
  /\ load[r].phase = "summary"
  /\ \/ \E a \in Answers(0) :
          load' = [load EXCEPT ![r].phase = "parts", ![r].pin = a.rev,
                               ![r].got = {[part |-> "summary", answer |-> a]}]
     \/ Answers(0) = {} /\ Conflict(r)
  /\ UNCHANGED <<page, more>>

Missing(r) == {p \in Parts : \A g \in load[r].got : g.part # p}

\* The last part to arrive puts the whole page on screen, whatever has been
\* asked for from the one before.
GetPart(r) ==
  /\ load[r].phase = "parts"
  /\ \E p \in Missing(r) :
       \/ /\ Answers(load[r].pin) = {}
          /\ Conflict(r)
          /\ UNCHANGED <<page, more>>
       \/ \E a \in Answers(load[r].pin) :
            LET got == load[r].got \cup {[part |-> p, answer |-> a]}
            IN  IF Missing(r) = {p}
                THEN /\ page' = [page EXCEPT ![r] = [NoPage EXCEPT !.got = got]]
                     /\ more' = [more EXCEPT ![r].late = (more[r].phase # "idle")]
                     /\ load' = [load EXCEPT ![r] = NoLoad]
                ELSE /\ load' = [load EXCEPT ![r].got = got]
                     /\ UNCHANGED <<page, more>>

-----------------------------------------------------------------------------
(* What is asked for after a page is on screen. *)

PageRevision(r) == {g.answer.rev : g \in {h \in page[r].got : h.part = "summary"}}

\* Mutation: the request for further rows is not pinned.
AskMoreUnpinned(r) ==
  /\ more[r].phase = "idle"
  /\ PageRevision(r) # {}
  /\ more' = [more EXCEPT ![r] = [NoMore EXCEPT !.phase = "asked"]]
  /\ UNCHANGED <<load, page>>

\* moreUndated: pinned to the revision on screen, never cancelled.
AskMore(r) ==
  /\ more[r].phase = "idle"
  /\ \E pin \in PageRevision(r) :
       more' = [more EXCEPT ![r] = [NoMore EXCEPT !.phase = "asked", !.pin = pin]]
  /\ UNCHANGED <<load, page>>

AnswerMore(r) ==
  /\ more[r].phase = "asked"
  /\ more' = [more EXCEPT ![r] =
       IF Answers(more[r].pin) = {} THEN NoMore
       ELSE [@ EXCEPT !.phase = "answered", !.rows = Answers(more[r].pin)]]
  /\ UNCHANGED <<load, page>>

\* The rows are appended to the page that is on screen when they arrive, also
\* when that is another one than they were asked for from.
AddRows(r) ==
  /\ more[r].phase = "answered"
  /\ page' = IF more[r].late
             THEN [page EXCEPT ![r].stray = @ \cup more[r].rows]
             ELSE [page EXCEPT ![r].added = @ \cup more[r].rows]
  /\ more' = [more EXCEPT ![r] = NoMore]
  /\ UNCHANGED load

-----------------------------------------------------------------------------
PagesInit ==
  /\ Init
  /\ load = [r \in Readers |-> NoLoad]
  /\ page = [r \in Readers |-> NoPage]
  /\ more = [r \in Readers |-> NoMore]

DatabaseStep == Next /\ UNCHANGED readerVars

ReaderStep(r) ==
  /\ \/ Refresh(r) \/ GetSummary(r) \/ GetPart(r)
     \/ AskMore(r) \/ AnswerMore(r) \/ AddRows(r)
  /\ UNCHANGED vars

PagesNext == DatabaseStep \/ \E r \in Readers : ReaderStep(r)

PagesSpec == PagesInit /\ [][PagesNext]_pageVars

-----------------------------------------------------------------------------
(* Properties. *)

AnswersOnScreen(r) ==
  {g.answer : g \in page[r].got \cup load[r].got} \cup page[r].added \cup page[r].stray

(* No answer joins a revision's cost lines to fact rows other than those   *)
(* they were calculated from, however the collector's commits fall between *)
(* a page's requests.                                                      *)
LinesMatchFacts ==
  \A r \in Readers : \A a \in AnswersOnScreen(r) : a.rev # 0 => a.lines = a.live

(* All parts of one loaded page, fetched at different times, describe the  *)
(* same facts and come from the same revision, once there is a revision;   *)
(* so do the rows that are added to it later.  Except rows that were asked *)
(* for from a page which has been replaced since: they are added to the    *)
(* next one as they are.                                                   *)
LoadedPageIsOneSnapshot ==
  \A r \in Readers : \A g \in page[r].got :
    g.part = "summary" /\ g.answer.rev # 0 =>
      {h.answer : h \in page[r].got} \cup page[r].added = {g.answer}

(* "Pinned to the loaded revision, so the added rows belong to the same    *)
(* snapshot" (App.vue), whatever became of the page meanwhile.  They may   *)
(* not: the README's known exceptions.                                     *)
AddedRowsAreOfThePage ==
  \A r \in Readers : \A g \in page[r].got :
    g.part = "summary" /\ g.answer.rev # 0 => page[r].stray \subseteq {g.answer}

(* To the contract, facts are singletons, and the page being loaded or on  *)
(* screen is the set of the facts its parts describe, if it describes any, *)
(* and the rows that were added to it.                                     *)
Describes(got) ==
  IF \E g \in got : g.part = "summary" /\ g.answer.rev = 0 THEN {}
  ELSE {g.answer.live : g \in got}

Shows(shown) ==
  Describes(shown.got)
  \cup {a.live : a \in {b \in shown.added : Describes(shown.got) # {}}}

Contract == INSTANCE ReportContract WITH
  Facts <- {{f} : f \in Facts},
  Nothing <- {},
  facts <- {facts},
  loading <- [r \in Readers |-> Describes(load[r].got)],
  shown <- [r \in Readers |-> Shows(page[r])]

(* Pages implement the contract: each describes one instant's facts.       *)
ImplementsContract == Contract!Spec
=============================================================================
