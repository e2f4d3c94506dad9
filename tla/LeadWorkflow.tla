---------------------------- MODULE LeadWorkflow ----------------------------
(***************************************************************************)
(* What administrators do with a lead (projects/leads/admin-leads.service):*)
(* change its status, add notes, delete it.  A change of status names the  *)
(* revision the administrator saw; the new status and the row that tells   *)
(* of it are written by one transaction.  Leads are also deleted by the    *)
(* retention task and created by visitors, which ProjectWrites models.     *)
(***************************************************************************)
EXTENDS Integers, Sequences

CONSTANTS
    Leads,        \* the leads there are
    Statuses,     \* NEW, IN_PROGRESS, DONE, REJECTED, SPAM
    StatusEdits,  \* requests to change a status
    NoteEdits,    \* requests to add a note
    LeadHorizon   \* bound of the clock

\* Every revision is new: that of a lead as it was made, and that of each change.
ASSUME FreshRevisions == "first" \notin StatusEdits

VARIABLES
    leadClock,
    leads,     \* the rows: lead -> status and revision
    history,   \* the rows of lead_status_changes: lead -> as they were committed
    notes,     \* the rows of lead_notes
    change,    \* the requests to change a status
    noteEdit   \* the requests to add a note

leadVars == <<leadClock, leads, history, notes, change, noteEdit>>

LeadIds == DOMAIN leads
NoStatus == "none"
NotAsked == [at |-> "new"]

\* A visitor's request makes the lead and the first row of its history.
LeadsInit ==
    /\ leadClock = 0
    /\ leads = [l \in Leads |-> [status |-> "NEW", rev |-> "first"]]
    /\ history = [l \in Leads |-> <<[from |-> NoStatus, to |-> "NEW", when |-> 0]>>]
    /\ notes = {}
    /\ change = [e \in StatusEdits |-> NotAsked]
    /\ noteEdit = [e \in NoteEdits |-> "new"]

LeadTick ==
    /\ leadClock < LeadHorizon
    /\ leadClock' = leadClock + 1
    /\ UNCHANGED <<leads, history, notes, change, noteEdit>>

-----------------------------------------------------------------------------
(* Changing the status.                                                    *)

\* The administrator looks at the lead and chooses a status.
OpenLead(e) ==
    /\ change[e] = NotAsked
    /\ \E l \in LeadIds, s \in Statuses :
          change' = [change EXCEPT ![e] =
             [at |-> "sent", lead |-> l, from |-> NoStatus, to |-> s,
              rev |-> leads[l].rev]]
    /\ UNCHANGED <<leadClock, leads, history, notes, noteEdit>>

Answers(e, answer) == change' = [change EXCEPT ![e].at = answer]

ReadLead(e) ==
    /\ change[e].at = "sent"
    /\ LET l == change[e].lead
       IN  IF l \notin LeadIds THEN Answers(e, "notFound")
           ELSE IF leads[l].rev # change[e].rev THEN Answers(e, "stale")
           ELSE IF leads[l].status = change[e].to THEN Answers(e, "sameStatus")
           ELSE change' = [change EXCEPT ![e].at = "write",
                                         ![e].from = leads[l].status]
    /\ UNCHANGED <<leadClock, leads, history, notes, noteEdit>>

\* Mutant: the update does not name the revision.
AnyRevisionOf(e) == change[e].lead \in LeadIds

SeenRevision(e) ==
    change[e].lead \in LeadIds /\ leads[change[e].lead].rev = change[e].rev

\* The update and the row of the history are one transaction.  The row is dated
\* when it is made, after the update has locked the lead.
WriteStatus(e) ==
    /\ change[e].at = "write"
    /\ LET l == change[e].lead
       IN  IF SeenRevision(e)
           THEN /\ leads' = [leads EXCEPT ![l] =
                               [status |-> change[e].to, rev |-> e]]
                /\ history' = [history EXCEPT ![l] = Append(@,
                      [from |-> change[e].from, to |-> change[e].to,
                       when |-> leadClock])]
                /\ Answers(e, "ok")
           ELSE /\ Answers(e, IF l \in LeadIds THEN "stale" ELSE "notFound")
                /\ UNCHANGED <<leads, history>>
    /\ UNCHANGED <<leadClock, notes, noteEdit>>

-----------------------------------------------------------------------------
(* Notes and deletion.                                                     *)

\* The foreign key refuses a note of a lead that is gone.
AddNote(e) ==
    /\ noteEdit[e] = "new"
    /\ \E l \in Leads :
          /\ noteEdit' = [noteEdit EXCEPT ![e] =
                             IF l \in LeadIds THEN "ok" ELSE "notFound"]
          /\ notes' = IF l \in LeadIds
                      THEN notes \cup {[lead |-> l, note |-> e]} ELSE notes
    /\ UNCHANGED <<leadClock, leads, history, change>>

\* The rows that refer to the lead go with it.
DeleteLead(l) ==
    /\ leads' = [other \in LeadIds \ {l} |-> leads[other]]
    /\ history' = [other \in LeadIds \ {l} |-> history[other]]
    /\ notes' = {n \in notes : n.lead # l}
    /\ UNCHANGED <<leadClock, change, noteEdit>>

LeadsNext ==
    \/ LeadTick
    \/ \E e \in StatusEdits : OpenLead(e) \/ ReadLead(e) \/ WriteStatus(e)
    \/ \E e \in NoteEdits : AddNote(e)
    \/ \E l \in LeadIds : DeleteLead(l)

LeadsSpec == LeadsInit /\ [][LeadsNext]_leadVars

-----------------------------------------------------------------------------
(* Properties.                                                             *)

Chained(rows) ==
    /\ rows # << >>
    /\ rows[1].from = NoStatus
    /\ \A i \in 2..Len(rows) :
          /\ rows[i].from = rows[i - 1].to
          /\ rows[i].from # rows[i].to
          /\ rows[i - 1].when <= rows[i].when

\* The history of a lead tells how it came to its status: it begins when the
\* lead was made, each row takes up where the one before ended, in the order of
\* their dates, by which they are shown, and the last ends in the status the lead
\* has, whatever administrators did at once (admin-leads.service.ts,
\* changeStatus).  What belongs to a lead that is gone is gone.
HistoryChains ==
    /\ DOMAIN history = LeadIds
    /\ \A l \in LeadIds :
          /\ Chained(history[l])
          /\ history[l][Len(history[l])].to = leads[l].status
    /\ \A n \in notes : n.lead \in LeadIds
=============================================================================
