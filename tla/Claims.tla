--------------------------------- MODULE Claims ---------------------------------
(***************************************************************************)
(* What a client and a server are told (ClaimView and ClaimCompositionView *)
(* in fakts/views.py, render_composition and render_server_fakts): a claim *)
(* reads the row its token names, then what belongs to it in one statement *)
(* after another, outside any transaction.                                 *)
(***************************************************************************)
EXTENDS Composing

VARIABLE shown   \* what each claim has read so far

Link == [key : Key, inst : Instance]

\* A client's answer, as far as it is compared with anything: the instances
\* rendered, and the mappings that have still to be.
ClaimAnswer == [instances : SUBSET Link, left : SUBSET Link]

\* A server's answer: the code that brought it its token, and its
\* composition's instances and clients.
CompositionClaimAnswer ==
  [code : Code, instances : SUBSET Instance, clients : SUBSET App]

NoClaim == [instances |-> {}]

ClaimTypeOK == shown \in [Request -> ClaimAnswer \cup CompositionClaimAnswer \cup {NoClaim}]

ClaimInit == shown = [r \in Request |-> NoClaim]

Show(r, answer) == shown' = [shown EXCEPT ![r] = answer]

-----------------------------------------------------------------------------
(* ClaimView *)

\* The client is read: its row carries the statuses.
BeginClaim(r, a) ==
  /\ clients[a] # None
  /\ Start(r, "claim", "claiming", clients[a].comp, a)
  /\ UNCHANGED <<rowVars, shown>>

LinksOf(a) == {[key |-> m.key, inst |-> m.inst] : m \in {x \in maps : x.app = a}}

\* client.mappings.all(): one statement.
ListMappings(r) ==
  /\ stage[r] = "claiming"
  /\ Show(r, [instances |-> {}, left |-> LinksOf(app[r])])
  /\ To(r, IF LinksOf(app[r]) = {} THEN "done" ELSE "rendering")
  /\ UNCHANGED <<rowVars, op, comp, app, seen>>

\* mapping.instance is fetched and rendered with its aliases.
RenderInstance(r) ==
  LET c == shown[r]
  IN  /\ stage[r] = "rendering"
      /\ \E l \in c.left :
           /\ l.inst \in insts
           /\ Show(r, [instances |-> c.instances \cup {l}, left |-> c.left \ {l}])
           /\ To(r, IF c.left = {l} THEN "done" ELSE "rendering")
      /\ UNCHANGED <<rowVars, op, comp, app, seen>>

\* The instance was deleted since: the client gets an error, and no answer.
RenderFails(r) ==
  /\ stage[r] = "rendering"
  /\ \E l \in shown[r].left : l.inst \notin insts
  /\ Show(r, NoClaim)
  /\ To(r, "failed")
  /\ UNCHANGED <<rowVars, op, comp, app, seen>>

-----------------------------------------------------------------------------
(* ClaimCompositionView *)

\* Who polls the granted code k gets the token of its composition.
BeginServerClaim(r, k) ==
  /\ codes[k] = "granted"
  /\ result[k] \in comps
  /\ Start(r, "serve", "serving", result[k], None)
  /\ Show(r, [code |-> k, instances |-> {}, clients |-> {}])
  /\ UNCHANGED rowVars

\* composition.instances.all()
ListInstances(r) ==
  /\ stage[r] = "serving"
  /\ Show(r, [code |-> shown[r].code, instances |-> InstancesIn(comp[r]), clients |-> {}])
  /\ To(r, "listing")
  /\ UNCHANGED <<rowVars, op, comp, app, seen>>

\* composition.clients.all()
ListClients(r) ==
  /\ stage[r] = "listing"
  /\ Show(r, [code |-> shown[r].code, instances |-> shown[r].instances,
              clients |-> ClientsIn(comp[r])])
  /\ To(r, "done")
  /\ UNCHANGED <<rowVars, op, comp, app, seen>>

ClaimArrive(r) ==
  \/ \E a \in App : BeginClaim(r, a)
  \/ \E k \in Code : BeginServerClaim(r, k)

ClaimStep(r) ==
  \/ ListMappings(r) \/ RenderInstance(r) \/ RenderFails(r)
  \/ ListInstances(r) \/ ListClients(r)

=============================================================================
