------------------------------- MODULE Inventory -------------------------------
(***************************************************************************)
(* What members register in their organization and say of themselves:      *)
(* devices and device groups, aliases of instances, profiles, uploaded     *)
(* files, and the lists of who may use an instance.                        *)
(*                                                                         *)
(* None of these requests has a transaction of its own.  An update reads   *)
(* the row, changes it in memory and saves it whole; a row deleted         *)
(* meanwhile is inserted again by the save.                                *)
(***************************************************************************)
EXTENDS Accounts

CONSTANTS
  Place,      \* what rows of a kind may have in common: the node of a device,
              \* the address of an alias, whose profile it is, a file's key
  Known,      \* the place of the rows that are there at the start
  ListSets    \* the lists that requests replace together

Kind == {"device", "group", "alias", "userProfile", "organizationProfile",
         "groupProfile", "file"}

\* The lists of an instance, in the order in which they are replaced.
Lists == <<"allowedGroups", "allowedUsers", "deniedGroups", "deniedUsers">>
List == {Lists[i] : i \in 1..Len(Lists)}

ASSUME InventoryAssumption ==
  /\ Known \in Place /\ None \notin Place
  /\ ListSets \subseteq SUBSET List

VARIABLES
  rows,      \* the rows of each kind: what each is about
  grouped,   \* the groups of the devices
  lists,     \* the request that has filled each list
  order,     \* what each request has been asked
  kept,      \* the row each request has read
  wrote      \* history: the request that wrote or deleted a row last

inventoryVars == <<rows, grouped, lists, order, kept, wrote>>

Order == [kind : Kind, row : Inserter \cup {None}, place : Place \cup {None},
          group : Inserter \cup {None}, lists : SUBSET List]

NoOrder == [kind |-> "device", row |-> None, place |-> None, group |-> None, lists |-> {}]

Has(k, x) == rows[k][x] # None

\* Unique constraints: one device per node, one profile per subject, one row
\* per file; device groups may be alike.  There is one alias here.
Unique(k) == k # "group"

Like(k, p) == {x \in Inserter : rows[k][x] = p}

Clash(k, x, p) == Unique(k) /\ Like(k, p) \ {x} # {}

InventoryTypeOK ==
  /\ rows \in [Kind -> [Inserter -> Place \cup {None}]]
  /\ \A k \in Kind, p \in Place : Unique(k) => Cardinality(Like(k, p)) <= 1
  /\ grouped \subseteq {x \in Inserter : Has("device", x)} \X {g \in Inserter : Has("group", g)}
  /\ lists \in [List -> Inserter]
  /\ order \in [Request -> Order]
  /\ kept \in [Request -> Place \cup {None}]
  /\ wrote \in [Kind -> [Inserter -> Inserter]]

\* One device in one group, an alias and the profiles.
InventoryInit ==
  /\ rows = [k \in Kind |-> [x \in Inserter |->
                              IF x = Old /\ k # "file" THEN Known ELSE None]]
  /\ grouped = {<<Old, Old>>}
  /\ lists = [l \in List |-> Old]
  /\ order = [r \in Request |-> NoOrder]
  /\ kept = [r \in Request |-> None]
  /\ wrote = [k \in Kind |-> [x \in Inserter |-> Old]]

-----------------------------------------------------------------------------
(* Statements *)

Write(r, k, x, p) ==
  /\ rows' = [rows EXCEPT ![k][x] = p]
  /\ wrote' = [wrote EXCEPT ![k][x] = r]

Refused(r) == Fail(r) /\ UNCHANGED <<rows, wrote>>

OnRow(r, x) == order' = [order EXCEPT ![r].row = x]

\* Mutant: a device that is known is left as it is.
PutDeviceOnce(r) ==
  LET same == Like("device", order[r].place)
  IN  /\ At(r, "putdevice")
      /\ \E x \in (IF same = {} THEN {r} ELSE same) :
           /\ OnRow(r, x)
           /\ IF same = {} THEN Write(r, "device", x, order[r].place)
                           ELSE UNCHANGED <<rows, wrote>>
      /\ Proceed(r)
      /\ UNCHANGED <<grouped, lists, kept>>

\* update_or_create, which locks a row it finds; of two insertions the unique
\* constraint lets one through, and the other finds its row.
PutDevice(r) ==
  LET same == Like("device", order[r].place)
  IN  /\ At(r, "putdevice")
      /\ \E x \in (IF same = {} THEN {r} ELSE same) :
           OnRow(r, x) /\ Write(r, "device", x, order[r].place)
      /\ Proceed(r)
      /\ UNCHANGED <<grouped, lists, kept>>

\* get_or_create: files uploaded with one key are one file.
PutFile(r) ==
  LET same == Like("file", order[r].place)
  IN  /\ At(r, "putfile")
      /\ IF same = {} THEN OnRow(r, r) /\ Write(r, "file", r, order[r].place)
                      ELSE (\E x \in same : OnRow(r, x)) /\ UNCHANGED <<rows, wrote>>
      /\ Proceed(r)
      /\ UNCHANGED <<grouped, lists, kept>>

InsertRow(r) ==
  LET k == order[r].kind
      p == order[r].place
  IN  /\ At(r, "insertrow")
      /\ IF Clash(k, r, p) THEN Refused(r) ELSE Write(r, k, r, p) /\ Proceed(r)
      /\ OnRow(r, r)
      /\ UNCHANGED <<grouped, lists, kept>>

ReadRow(r) ==
  LET o == order[r]
  IN  /\ At(r, "readrow")
      /\ kept' = [kept EXCEPT ![r] = rows[o.kind][o.row]]
      /\ IF Has(o.kind, o.row) THEN Proceed(r) ELSE Fail(r)
      /\ UNCHANGED <<rows, grouped, lists, order, wrote>>

\* save() updates the row, or inserts it when it has been deleted.
SaveRow(r) ==
  LET o == order[r]
      p == IF o.place = None THEN kept[r] ELSE o.place
  IN  /\ At(r, "saverow")
      /\ IF Clash(o.kind, o.row, p) THEN Refused(r)
                                    ELSE Write(r, o.kind, o.row, p) /\ Proceed(r)
      /\ UNCHANGED <<grouped, lists, order, kept>>

\* The row goes, if it has not gone already, and its groups or devices with it.
DeleteRow(r) ==
  LET k == order[r].kind
      x == order[r].row
  IN  /\ At(r, "deleterow")
      /\ IF Has(k, x) THEN Write(r, k, x, None) ELSE UNCHANGED <<rows, wrote>>
      /\ grouped' = {dg \in grouped : ~(k = "device" /\ dg[1] = x)
                                   /\ ~(k = "group" /\ dg[2] = x)}
      /\ Proceed(r)
      /\ UNCHANGED <<lists, order, kept>>

ReadGroup(r) ==
  /\ At(r, "readgroup")
  /\ IF Has("group", order[r].group) THEN Proceed(r) ELSE Fail(r)
  /\ UNCHANGED inventoryVars

\* device_groups.add: both ends must still be there.
AddPair(r) ==
  LET o == order[r]
  IN  /\ At(r, "addpair")
      /\ IF Has("device", o.row) /\ Has("group", o.group)
           THEN grouped' = grouped \cup {<<o.row, o.group>>} /\ Proceed(r)
           ELSE Fail(r) /\ UNCHANGED grouped
      /\ UNCHANGED <<rows, lists, order, kept, wrote>>

\* Each list that the request brings is replaced by a statement of its own.
SetList(r) ==
  \E l \in List :
    /\ At(r, l)
    /\ lists' = IF l \in order[r].lists THEN [lists EXCEPT ![l] = r] ELSE lists
    /\ Proceed(r)
    /\ UNCHANGED <<rows, grouped, order, kept, wrote>>

-----------------------------------------------------------------------------
(* Requests *)

Ask(r, op, o) ==
  /\ Begin(r, Asked(op))
  /\ order' = [order EXCEPT ![r] = o]
  /\ UNCHANGED <<rows, grouped, lists, kept, wrote>>

Of(k, x) == [NoOrder EXCEPT !.kind = k, !.row = x]
New(k, p) == [NoOrder EXCEPT !.kind = k, !.place = p]

CreateDevice(r, p) == Ask(r, "device", New("device", p))
UpdateDevice(r, x) == Has("device", x) /\ Ask(r, "edit", Of("device", x))
DeleteDevice(r, x) == Has("device", x) /\ Ask(r, "remove", Of("device", x))

CreateDeviceGroup(r, p) == Ask(r, "group", New("group", p))
DeleteDeviceGroup(r, x) == Has("group", x) /\ Ask(r, "remove", Of("group", x))
AddDeviceToGroup(r, x, g) ==
  /\ Has("device", x) /\ Has("group", g)
  /\ Ask(r, "enlist", [Of("device", x) EXCEPT !.group = g])

\* create_alias names columns an alias does not have, and always fails.
UpdateAlias(r, x, p) ==
  Has("alias", x) /\ Ask(r, "edit", [Of("alias", x) EXCEPT !.place = p])
DeleteAlias(r, x) == Has("alias", x) /\ Ask(r, "remove", Of("alias", x))

\* It looks for an alias with the id it is given, and deletes that.
DeleteIonscaleLayer(r, x) == Has("alias", x) /\ Ask(r, "remove", Of("alias", x))

\* Only its user may delete a profile, and only the owner an organization's.
CreateUserProfile(r, p) == Ask(r, "profile", New("userProfile", p))
UpdateUserProfile(r, x) == Has("userProfile", x) /\ Ask(r, "edit", Of("userProfile", x))
DeleteUserProfile(r, x) == Has("userProfile", x) /\ Ask(r, "remove", Of("userProfile", x))

CreateOrganizationProfile(r, p) == Ask(r, "profile", New("organizationProfile", p))
UpdateOrganizationProfile(r, x) ==
  Has("organizationProfile", x) /\ Ask(r, "edit", Of("organizationProfile", x))
DeleteOrganizationProfile(r, x) ==
  Has("organizationProfile", x) /\ Ask(r, "remove", Of("organizationProfile", x))

CreateGroupProfile(r, p) == Ask(r, "profile", New("groupProfile", p))
UpdateGroupProfile(r, x) == Has("groupProfile", x) /\ Ask(r, "edit", Of("groupProfile", x))

RequestMediaUpload(r, p) == Ask(r, "upload", New("file", p))

UpdateServiceInstance(r, L) == Ask(r, "permit", [NoOrder EXCEPT !.lists = L])

InventoryArrive(r) ==
  \/ \E p \in Place :
       \/ CreateDevice(r, p) \/ CreateDeviceGroup(r, p) \/ CreateUserProfile(r, p)
       \/ CreateOrganizationProfile(r, p) \/ CreateGroupProfile(r, p)
       \/ RequestMediaUpload(r, p)
  \/ \E x \in Inserter :
       \/ UpdateDevice(r, x) \/ DeleteDevice(r, x) \/ DeleteDeviceGroup(r, x)
       \/ \E g \in Inserter : AddDeviceToGroup(r, x, g)
       \/ \E p \in Place : UpdateAlias(r, x, p)
       \/ DeleteAlias(r, x) \/ DeleteIonscaleLayer(r, x)
       \/ UpdateUserProfile(r, x) \/ DeleteUserProfile(r, x)
       \/ UpdateOrganizationProfile(r, x) \/ DeleteOrganizationProfile(r, x)
       \/ UpdateGroupProfile(r, x)
  \/ \E L \in ListSets : UpdateServiceInstance(r, L)

InventoryStep(r) ==
  \/ PutDevice(r) \/ PutFile(r) \/ InsertRow(r) \/ ReadRow(r) \/ SaveRow(r)
  \/ DeleteRow(r) \/ ReadGroup(r) \/ AddPair(r) \/ SetList(r)

=============================================================================
