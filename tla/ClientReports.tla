----------------------------- MODULE ClientReports -----------------------------
(***************************************************************************)
(* The self-report of a client: ReportView (fakts/views.py) and            *)
(* report_client (fakts/services/clients.py).  The client is read, changed *)
(* and saved as a whole row; that the transaction is atomic does not keep  *)
(* another one from committing between the read and the save.              *)
(***************************************************************************)
EXTENDS ClientRegistry

CONSTANTS ReportRequest  \* the requests that are POSTs to ReportView

VARIABLES report  \* the state of each report

Report == [stage : {"read", "done"}, client : RowId, row : Client]

NoReport == [stage |-> "new"]

ReportTypeOK == report \in [ReportRequest -> Report \cup {NoReport}]

ReportInit == report = [p \in ReportRequest |-> NoReport]

\* Mutant: the client is not looked up again.
ReadClientGone(p, c) ==
  /\ report[p].stage = "new"
  /\ report' = [report EXCEPT ![p] =
                  [stage |-> "read", client |-> c, row |-> clients[c]]]
  /\ UNCHANGED registryVars

\* Client.objects.get(token): the reporting client presents its secret.
ReadClient(p, c) ==
  /\ report[p].stage = "new"
  /\ c \in Live
  /\ report' = [report EXCEPT ![p] =
                  [stage |-> "read", client |-> c, row |-> clients[c]]]
  /\ UNCHANGED registryVars

\* client.save(): the UPDATE waits for a transaction that holds the row and
\* then writes every column; a foreign key to a deleted device fails.
SaveReport(p) ==
  LET c == report[p].client IN
  /\ report[p].stage = "read"
  /\ c \in Live \ LockedClients
  /\ clients[c].node = report[p].row.node
  /\ clients' = [clients EXCEPT ![c] = report[p].row]
  /\ report' = [report EXCEPT ![p].stage = "done"]
  /\ UNCHANGED <<apps, members, reg>>

\* The save fails, or a reported alias does not exist: nothing is written.
FailReport(p) ==
  /\ report[p].stage = "read"
  /\ report' = [report EXCEPT ![p].stage = "done"]
  /\ UNCHANGED registryVars

ReportSteps ==
  \E p \in ReportRequest :
    (\E c \in RowId : ReadClient(p, c)) \/ SaveReport(p) \/ FailReport(p)

=============================================================================
