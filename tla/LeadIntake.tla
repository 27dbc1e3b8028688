----------------------------- MODULE LeadIntake -----------------------------
(***************************************************************************)
(* The sales module (argus/modules/sales): the import of a lead file, what *)
(* it leaves in the five JSON files of the repository, the work queue, and *)
(* the steps of the "Sales Lead Intake" workflow that ties them together.  *)
(*                                                                         *)
(* A save replaces one file atomically, and nothing covers two of them: an *)
(* exception or the end of the process may come between any two.  Handlers *)
(* of the LeadImported and WorkItem... events are host code and may import *)
(* a file, or change the work items, themselves.  A name or an e-mail      *)
(* address stands for itself in lower case, by which the importer knows it.*)
(***************************************************************************)
EXTENDS CallStack

CONSTANTS
    CompanyKeys, ContactKeys, CampaignKeys,   \* what the columns of a row may hold
    DueDates,     \* due dates of the work items that host code adds, 0 for none
    MaxMade,      \* bound: objects made
    MaxItems      \* bound: work items

ASSUME DatesAreOrdered == DueDates \subseteq Nat

VARIABLES
    files,        \* the files: kind -> (key -> id); set of leads
    items,        \* work_items.json, in the order of the file
    made,         \* ids given out
    overlapped,   \* history: an import was begun within another one
    clashed       \* history: work items were saved while an intake held the queue

intakeVars == <<files, items, made, overlapped, clashed>>

Missing == 0
Nothing == [k \in {} |-> Missing]
Parties == {"companies", "contacts", "campaigns"}
Open == {"PENDING", "IN_PROGRESS"}
Closed == {"COMPLETED", "SKIPPED"}

IntakeInit ==
    /\ stack = << >>
    /\ files = [companies |-> Nothing, contacts |-> Nothing, campaigns |-> Nothing, leads |-> {}]
    /\ items = << >>
    /\ made = 0
    /\ overlapped = FALSE /\ clashed = FALSE

-----------------------------------------------------------------------------
(* import_and_persist *)

\* Between rows and while it saves, an import runs no code of the host.
Alone == {"open", "companies", "contacts", "campaigns", "leads"}
HostMayCall == MayCall /\ (Busy => Top.at \notin Alone)
Importing(f) == f.call = "import"

\* The importer is seeded with the companies, contacts and campaigns stored.
ImportFrame ==
    [call |-> "import", at |-> "open", known |-> [p \in Parties |-> files[p]], leads |-> << >>]

BeginImport(below) ==
    /\ stack' = Append(below, ImportFrame)
    /\ overlapped' = (overlapped \/ \E i \in DOMAIN below : Importing(below[i]))
    /\ UNCHANGED <<files, items, made, clashed>>

Import == HostMayCall /\ BeginImport(stack)

\* The object known by the key, or a new one.
Party(known, key, new) ==
    IF key = Missing THEN Missing ELSE IF key \in DOMAIN known THEN known[key] ELSE new
Learnt(known, key, new) ==
    IF key \in {Missing} \union DOMAIN known THEN known
    ELSE [k \in DOMAIN known \union {key} |-> IF k = key THEN new ELSE known[k]]

\* One row: its company, contact and campaign are looked up or built, its lead is
\* built and LeadImported is published.  A row without a company is skipped.
ReadRow(row) ==
    /\ TopIs("import", {"open", "LeadImported"})
    /\ made + 4 <= MaxMade
    /\ LET id(p) == CASE p = "companies" -> made + 1
                      [] p = "contacts"  -> made + 2
                      [] p = "campaigns" -> made + 3
           lead == [id |-> made + 4, of |-> [p \in Parties |-> Party(Top.known[p], row[p], id(p))]]
       IN stack' = [stack EXCEPT
              ![Len(stack)].known = [p \in Parties |-> Learnt(@[p], row[p], id(p))],
              ![Len(stack)].leads = Append(@, lead),
              ![Len(stack)].at = "LeadImported"]
    /\ made' = made + 4
    /\ UNCHANGED <<files, items, overlapped, clashed>>

\* Mutant of EndOfFile: the leads are saved before the others.
EndOfFileLeadsFirst ==
    /\ TopIs("import", {"open", "LeadImported"})
    /\ Goto("companies")
    /\ files' = [files EXCEPT !.leads = @ \union ToSet(Top.leads)]
    /\ UNCHANGED <<items, made, overlapped, clashed>>

EndOfFile ==
    /\ TopIs("import", {"open", "LeadImported"})
    /\ Goto("companies")
    /\ UNCHANGED intakeVars

After == [companies |-> "contacts", contacts |-> "campaigns", campaigns |-> "leads"]

SaveParties(p) ==
    /\ TopIs("import", {p})
    /\ files' = [files EXCEPT ![p] = Top.known[p]]
    /\ Goto(After[p])
    /\ UNCHANGED <<items, made, overlapped, clashed>>

\* The stored leads are read here, and not before, and saved with the new ones.
SaveLeads ==
    /\ TopIs("import", {"leads"})
    /\ files' = [files EXCEPT !.leads = @ \union ToSet(Top.leads)]
    /\ LET below == Front(stack) IN
       stack' = IF below # << >> /\ Last(below).at = "calling"
                THEN [below EXCEPT ![Len(below)].at = "import_leads",
                                   ![Len(below)].imported = Top.leads]
                ELSE below
    /\ UNCHANGED <<items, made, overlapped, clashed>>

-----------------------------------------------------------------------------
(* WorkQueue *)

\* order_work_items: by due date those that have one, then by age the others.
Before(a, b) ==
    IF a.due = b.due THEN a.id < b.id ELSE a.due # 0 /\ (b.due = 0 \/ a.due < b.due)

\* pending_items, and the one that stands before all others.
PendingItems(queue) == {item \in ToSet(queue) : item.status \in Open}
Foremost(queue) ==
    {a \in PendingItems(queue) : \A b \in PendingItems(queue) \ {a} : Before(a, b)}

\* Mutant of MayTransition: the status is not looked at.
MayTransitionKnown(queue, id) == \E i \in DOMAIN queue : queue[i].id = id

\* _transition: an item that is unknown or closed is refused.
MayTransition(queue, id) == \E i \in DOMAIN queue : queue[i].id = id /\ queue[i].status \in Open
Transitioned(queue, id, status) ==
    [i \in DOMAIN queue |-> IF queue[i].id = id THEN [queue[i] EXCEPT !.status = status] ELSE queue[i]]

Added(queue, lead, due) ==
    Append(queue, [id |-> Len(queue) + 1, lead |-> lead, due |-> due, status |-> "PENDING"])

Holding == \E i \in DOMAIN stack : stack[i].call = "intake" /\ stack[i].at \notin {"calling", "import_leads"}

\* Host code loads the queue, uses it and saves it.
HostSaves(queue) ==
    /\ HostMayCall
    /\ items' = queue
    /\ clashed' = (clashed \/ Holding)
    /\ UNCHANGED <<stack, files, made, overlapped>>

HostAdds(lead, due) == Len(items) < MaxItems /\ HostSaves(Added(items, lead.id, due))

HostTransitions(id) ==
    /\ MayTransition(items, id)
    /\ \E status \in {"IN_PROGRESS"} \union Closed : HostSaves(Transitioned(items, id, status))

-----------------------------------------------------------------------------
(* The steps of the intake workflow.  The engine publishes events between    *)
(* two steps, and runs the workflow once at a time.                          *)

Intake ==
    /\ HostMayCall
    /\ Len(stack) + 2 <= Depth
    /\ \A i \in DOMAIN stack : stack[i].call # "intake"
    /\ BeginImport(Opened([call |-> "intake", at |-> "calling", imported |-> << >>,
                           queue |-> << >>, top |-> 0]))

CreateWorkItem ==
    /\ TopIs("intake", {"import_leads"})
    /\ LET new == Top.imported IN
       /\ new # << >> => Len(items) < MaxItems
       /\ stack' = [stack EXCEPT
              ![Len(stack)].queue = IF new = << >> THEN items ELSE Added(items, new[1].id, 0),
              ![Len(stack)].at = "create_work_item"]
    /\ UNCHANGED intakeVars

\* queue.start publishes WorkItemStarted, queue.complete WorkItemCompleted.
StartTop ==
    /\ TopIs("intake", {"create_work_item"})
    /\ \/ PendingItems(Top.queue) = {} /\ Goto("advance_top")
       \/ \E top \in Foremost(Top.queue) :
              stack' = [stack EXCEPT
                  ![Len(stack)].top = top.id,
                  ![Len(stack)].queue = Transitioned(@, top.id, "IN_PROGRESS"),
                  ![Len(stack)].at = "WorkItemStarted"]
    /\ UNCHANGED intakeVars

CompleteTop ==
    /\ TopIs("intake", {"WorkItemStarted"})
    /\ MayTransition(Top.queue, Top.top)
    /\ stack' = [stack EXCEPT ![Len(stack)].queue = Transitioned(@, Top.top, "COMPLETED"),
                              ![Len(stack)].at = "advance_top"]
    /\ UNCHANGED intakeVars

PersistQueue ==
    /\ TopIs("intake", {"advance_top"})
    /\ items' = Top.queue
    /\ Return
    /\ UNCHANGED <<files, made, overlapped, clashed>>

\* The intake is over when its import raised: the engine has the workflow FAILED.
IntakeFails ==
    /\ TopIs("intake", {"raised"})
    /\ Return
    /\ UNCHANGED intakeVars

-----------------------------------------------------------------------------
(* A file cannot be read or saved, or a handler raises; the process ends.    *)

IntakeRaises == Busy /\ Top.at # "raised" /\ Unwind /\ UNCHANGED intakeVars
Crash == Busy /\ stack' = << >> /\ UNCHANGED intakeVars

Row == [companies : CompanyKeys, contacts : ContactKeys \union {Missing},
        campaigns : CampaignKeys \union {Missing}]

IntakeNext ==
    \/ Import \/ EndOfFile \/ SaveLeads
    \/ \E row \in Row : ReadRow(row)
    \/ \E p \in Parties : SaveParties(p)
    \/ \E lead \in files.leads, due \in DueDates : HostAdds(lead, due)
    \/ \E id \in 1 .. Len(items) : HostTransitions(id)
    \/ Intake \/ CreateWorkItem \/ StartTop \/ CompleteTop \/ PersistQueue \/ IntakeFails
    \/ IntakeRaises \/ Crash

IntakeSpec == IntakeInit /\ [][IntakeNext]_<<stack, intakeVars>>

-----------------------------------------------------------------------------
(* Properties *)

\* A stored lead refers to a company, contact and campaign that are stored,
\* wherever an import was left.
LeadsResolve ==
    \A lead \in files.leads, p \in Parties :
        lead.of[p] \in Range(files[p]) \union {Missing}

\* A company that was stored is found again by every later import, retried or
\* not: it keeps its id, and no twin takes its name.
PartiesAreKept ==
    [][overlapped' \/ \A p \in Parties : \A key \in DOMAIN files[p] :
           key \in DOMAIN files'[p] /\ files'[p][key] = files[p][key]]_<<stack, intakeVars>>

\* No import loses a stored lead, not even one that others were begun within.
LeadsAreKept == [][files.leads \subseteq files'.leads]_<<stack, intakeVars>>

\* A work item is stored for a lead that is stored: an intake creates it after the
\* import came to its end.
ItemsResolve == \A i \in DOMAIN items : \E lead \in files.leads : lead.id = items[i].lead

\* A work item that was stored COMPLETED or SKIPPED stays so and is never stored
\* away; but for the intake that loaded the queue before and saves it after.
ClosedItemsStay ==
    [][clashed \/ \A i \in DOMAIN items : items[i].status \in Closed =>
           i \in DOMAIN items' /\ items'[i] = items[i]]_<<stack, intakeVars>>

\* What an intake completes is the item that is due first: no open item that it
\* passes over has an earlier date, or has a date when it has none, or is older
\* with the same date.
DueFirst ==
    \A i \in DOMAIN stack :
        LET f == stack[i] IN
        f.call = "intake" /\ f.top # 0 =>
            \A a, b \in ToSet(f.queue) :
                a.id = f.top /\ b.status \in Open /\ b # a =>
                    \/ a.due # 0 /\ (b.due = 0 \/ a.due < b.due)
                    \/ a.due = b.due /\ a.id < b.id

\* Wherever an exception or a crash ends an import, the four files fit together, and
\* no later import takes back what is in them; but for an import that is begun in a
\* handler of another one, whose companies the outer one overwrites with what it read.
FilesStayWhole == [](overlapped \/ LeadsResolve) /\ PartiesAreKept /\ LeadsAreKept

\* The work items stay with their leads, are closed once, and go by their dates.
WorkStaysInOrder == [](ItemsResolve /\ DueFirst) /\ ClosedItemsStay
=============================================================================
