-------------------------------- MODULE Tailnets --------------------------------
(***************************************************************************)
(* The tailnets of organizations (create_ionscale_layer) and the keys that *)
(* admit machines to them (create_ionscale_auth_key), statement by         *)
(* statement, beside ionscale, which keeps both by itself: what it has     *)
(* created or handed out stays when the server's row is not stored, or is  *)
(* deleted.  How policies follow the members is the matter of Memberships. *)
(***************************************************************************)
EXTENDS Accounts

VARIABLES
  tailnets,   \* the tailnets ionscale has: the organization each was created for
  issued      \* the keys ionscale has handed out: tailnet and organization

tailnetVars == <<tailnets, issued>>

IssuedKey == [tailnet : Slug, org : OrgId]

ASSUME KeyAssumption == None \notin IssuedKey

TailnetTypeOK ==
  /\ tailnets \in [Slug -> OrgId \cup {None}]
  /\ issued \in [Request -> IssuedKey \cup {None}]

TailnetInit ==
  /\ tailnets = [s \in Slug |-> IF s = ConfSlug THEN Old ELSE None]
  /\ issued = [r \in Request |-> None]

-----------------------------------------------------------------------------
(* create_ionscale_layer *)

\* Nothing is asked of the caller.
BeginTailnet(r, o) ==
  /\ Begin(r, [Asked("tailnet") EXCEPT !.org = o])
  /\ UNCHANGED <<orgVars, oauthVars, tailnetVars>>

\* ionscale refuses a name it has, and may fail otherwise.
CreateTailnet(r) ==
  /\ At(r, "create")
  /\ \/ /\ tailnets[task[r].slug] = None
        /\ tailnets' = [tailnets EXCEPT ![task[r].slug] = task[r].org]
        /\ Proceed(r)
     \/ Fail(r) /\ UNCHANGED tailnets
  /\ UNCHANGED <<orgVars, oauthVars, issued>>

\* IonscaleLayer.tailnet_name is unique.
InsertLayer(r) ==
  LET layer == [org |-> task[r].org, tailnet |-> task[r].slug]
  IN  /\ At(r, "layer")
      /\ IF Live(layer.org) /\ \A l \in Inserter : layers[l] # None =>
                                 layers[l].tailnet # layer.tailnet
           THEN layers' = [layers EXCEPT ![r] = layer] /\ Proceed(r)
           ELSE Fail(r) /\ UNCHANGED layers
      /\ UNCHANGED <<users, active, chose, authkeys, orgs, roled, profiled, members, admins,
                     unkept, held, oauthVars, tailnetVars>>

\* The policy is pushed; a failure is the request's, the layer stays.
PushPolicy(r) ==
  /\ At(r, "push")
  /\ Proceed(r) \/ Fail(r)
  /\ UNCHANGED <<orgVars, oauthVars, tailnetVars>>

-----------------------------------------------------------------------------
(* create_ionscale_auth_key *)

BeginAuthKey(r, u, l) ==
  /\ Begin(r, [Asked("authkey") EXCEPT !.user = u, !.cred = l])
  /\ UNCHANGED <<orgVars, oauthVars, tailnetVars>>

ReadLayer(r) ==
  LET l == task[r].cred
  IN  /\ At(r, "layerrow")
      /\ IF layers[l] # None
           THEN /\ Go(r, [task[r] EXCEPT !.org = layers[l].org, !.slug = layers[l].tailnet])
                /\ UNCHANGED seen
           ELSE Fail(r)
      /\ UNCHANGED <<orgVars, oauthVars, tailnetVars>>

\* Only members of the layer's organization are given keys.
CheckMember(r) ==
  /\ At(r, "ofmember")
  /\ IF RowsOf(task[r].org, task[r].user) # {} THEN Proceed(r) ELSE Fail(r)
  /\ UNCHANGED <<orgVars, oauthVars, tailnetVars>>

MintKey(r) ==
  /\ At(r, "mint")
  /\ \/ /\ issued' = [issued EXCEPT ![r] = [tailnet |-> task[r].slug, org |-> task[r].org]]
        /\ Proceed(r)
     \/ Fail(r) /\ UNCHANGED issued
  /\ UNCHANGED <<orgVars, oauthVars, tailnets>>

\* The key's layer and creator must still be there.
StoreKey(r) ==
  LET key == [layer |-> task[r].cred, creator |-> task[r].user]
  IN  /\ At(r, "store")
      /\ IF layers[key.layer] # None /\ key.creator \in users
           THEN authkeys' = [authkeys EXCEPT ![r] = key] /\ Proceed(r)
           ELSE Fail(r) /\ UNCHANGED authkeys
      /\ UNCHANGED <<users, active, chose, layers, orgs, roled, profiled, members, admins,
                     unkept, held, oauthVars, tailnetVars>>

-----------------------------------------------------------------------------
TailnetArrive(r) ==
  \/ \E o \in OrgId : Live(o) /\ BeginTailnet(r, o)
  \/ \E u \in users, l \in Inserter : layers[l] # None /\ BeginAuthKey(r, u, l)

TailnetStep(r) ==
  \/ CreateTailnet(r) \/ InsertLayer(r) \/ PushPolicy(r)
  \/ ReadLayer(r) \/ CheckMember(r) \/ MintKey(r) \/ StoreKey(r)

=============================================================================
