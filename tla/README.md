# A verification project for lok-server-next

lok-server-next is a Django server that knows the users and organizations of an
Arkitekt deployment, registers the apps ("clients") and services that work for
them, tells each app where its services are, and speaks OAuth2/OpenID Connect to
them. This directory holds TLA+ models of it, TLC configurations that check them on
small instances, and TLAPS proofs of what matters most.

    tlc -workers 2 -config deployments.cfg MCDeploymentHub
    tlapm HubProofs.tla

`PROJECT.json` lists the components, the runs, what every definition was
translated from ("map"), the hazards the properties are aimed at and the theorems.

## The system

### Components, their state and their operations

| component | state | operations that change it | in TLA+ |
|---|---|---|---|
| client registration (`fakts/services/clients.py`) | App, Release, Device, Client rows | `create_client`, `create_development_client`, `delete_device` | `ClientRegistry` |
| redeem tokens (`fakts/services/clients.py`, `fakts/views.py`, `ensuretokens`) | RedeemToken rows: client, manifest hash, expiry | `RedeemView`, `redeem_token`, `validate_redeem_token`, `ensuretokens`, expiry, cascades | `RedeemTokens` (abstract: `RedeemTicket`) |
| device codes (`fakts/services/device_codes.py`, `fakts/views.py`) | DeviceCode rows | start, poll, accept, `validatecode`, `create_developmental_client` | `DeviceCodes` |
| client reports | `functional`, `UsedAlias` | `report_client` | `ClientReports` |
| memberships (`karakter`) | Membership rows and their roles | join, `update_membership`, `delete_membership`, `leave_org`, `add_user_to_organization`, `ensure_owner_is_admin`, `ensurememberships` | `Memberships`, `Organizations` |
| tailnet layers (`ionscale`) | IonscaleLayer and IonscaleAuthKey rows; policies, tailnets and keys in ionscale | `create_ionscale_layer`, `update_ionscale_layer`, `create_ionscale_auth_key`, `sync_organization_layers` by signal | `Memberships`, `Tailnets` |
| invites (`karakter`, `api/management`) | Invite rows: status, expiry, roles | create, accept, decline, cancel, each implemented three times | `Invites` |
| compositions and deletions (`fakts/models.py`) | Composition, Service, ServiceInstance, Role/Scope, Client, mapping rows | `delete_composition`, deletion of a device, Django's collector | `Deployments` |
| rendering and auto-composition (`fakts/services/rendering.py`) | ServiceInstanceMapping rows, `Client.statuses` | `auto_compose`, `find_instance_for_requirement_and_composition`, `ClaimView`, `ClaimCompositionView` | `Composing`, `Claims` |
| partner compositions (`fakts/services/compositions.py`) | the compositions of kommunity partners | `connect_kommunity_partner`, the hook, `ensurepartners`, `ensureorganizations` | `PartnerCompositions` |
| service and composition device codes | ServiceDeviceCode, CompositionDeviceCode rows | start, poll, accept | `StagedCodes` |
| organizations and users | Organization, User, Profile rows, `active_organization` | create, update, delete, signup, `choose`, the boot commands, signals | `Accounts`, `Organizations` |
| OAuth2 / OIDC (`authapp`, authlib) | OAuth2Client, AuthorizationCode, OAuth2Token rows | authorize, the three grants, revoke, `user_info`, API requests | `OAuthTokens` |
| comments, stashes, notification channels (`komment`, `pak`, `karakter`) | Comment, Stash, StashItem, ComChannel rows | create, mention, notify; stash, add, remove; register, notify | `Social` |
| devices, groups, aliases, profiles, media, access lists | rows of their own | create, update, delete, add to a group, replace the lists of an instance | `Inventory` |
| manifests, GraphQL types, filters and schema, settings | none | | not modelled |

### How they interact

All components share one PostgreSQL database and otherwise call each other
directly. The interactions that matter are these.

* A redemption, an accepted device code and an accepted composition code all end in
  `create_client`; `create_developmental_client` goes there directly, with the
  organization of the request and the composition of the calling client, which nothing
  relates. The row of a client is *one per release, user, organization and
  device*, so a second registration for the same key **updates** a client another
  token or code is bound to: its secret, its composition (perhaps to one of another
  organization) and its manifest change under it, and `auto_compose` maps it anew.
* Partners, boots and composition codes write compositions, and each of them gives
  roles and services that others have created; deleting a composition takes its
  instances, the roles *they created*, its clients, all mappings to its instances, and
  codes with it, by a collector that reads first and deletes later.
* `RedeemToken.client` and `DeviceCode.client` are `CASCADE`, as is
  `Client.membership`: whoever leaves an organization takes clients, tokens and
  codes with them. `Client.node` is `SET_NULL`: a deleted device leaves its clients.
* Every change of a membership sends a signal whose receiver pushes a new policy to
  every tailnet of the organization, by a command-line call. `create()` and `save()`
  commit first and push then; `delete()` and `get_or_create()` push inside their
  transaction.
* An invite leads to a membership, in four or five separate statements. Saving an
  organization runs a signal of up to six statements: roles, owner, membership, admin
  role, save, profile.
* An access token names its organization by the slug it had; each API request looks
  organization, client and membership up again.
* `run.sh` runs the boot commands before it serves, whatever the last run left undone.

### What is hard here

The server runs several workers against PostgreSQL at READ COMMITTED, with
autocommit: there is no transaction per request (`ATOMIC_REQUESTS` is not set). Only
`redeem_token`, `create_client`, `validate_device_code`, `report_client` and
`create_composition_from_manifest` open transactions, and only `redeem_token` locks a
row explicitly. So the hard behaviours are interleavings of statements, rows read
before another transaction commits and used after, whole-row saves that bring deleted
rows back, unique constraints that are missing or do not compare NULL, deletions
between the collector's reads and its DELETE, restarts that cut a request after any
statement, and clocks (`expires_at`) that pass between a check and its use. What makes
each component correct:

* **registration**: one client per key, even for clients without a device, which the
  unique constraint does not compare; one App row per identifier.
* **redeem tokens**: one manifest and one client for all answers about a token; no two
  tokens with one client; a token's client stays one of its user and organization, and
  no answer hands out a secret minted for anybody else; an expired token binds nobody;
  redeeming is atomic; everybody is answered.
* **device codes**: an app gets only what someone accepted for its code; "expired" is
  final; an acceptance reaches the app.
* **reports**: a report changes nothing but what it reports.
* **memberships and layers**: when a push ends that nothing disturbed, every tailnet
  lists exactly the members; and it should be so at rest in any case. A layer's tailnet and keys are
  those of its own organization.
* **invites**: an invite that was answered or has expired lets nobody in; an accept
  gives the invite's roles; a link is used once.
* **deployments**: a client is mapped into its own composition and told so; a claim
  shows one composition; a rejected partner's composition goes; a granted code hands
  over a whole composition; the default roles stay; every request ends.
* **accounts**: the owner is an admin; a boot repairs what was cut and takes nothing
  away; no OAuth client outlives its organization; codes and refresh tokens are spent
  once, but for overlapping requests; tokens and requests stay with the member they
  were granted to.
* **social, inventory**: twins only from overlapping requests; nobody is notified of a
  comment that failed; no answer is undone by a request that had ended before.

## The modules

Rows are named by the request that inserts them (a request inserts at most one row
of a kind), so a row id is a member of `Request` or of the rows that were there
before, and so is the secret a registration mints. Manifests, slugs, tokens, services
and roles are model values. `None` is SQL NULL or a row that does not exist. A
variable called history records what happened; it guides nothing.

| module | stands for |
|---|---|
| `ClientRegistry` | The transaction of `create_client`, cut at the statements where another transaction can matter: `GetOrCreateApp`, `LockRelease` (the row lock of `update_or_create` is held until commit: `HoldsRelease`), `Upsert`, `CommitRegistration`, `Rollback`; and `DeleteDevice`, `RemoveMember`, which make the foreign keys of an unfinished registration fail (`doomed`). `reg[r]` is the open transaction of request `r`; its rows become visible only at the commit. A client has its organization and its composition in separate fields. `CannotGoOn` is a statement that can only fail. |
| `RedeemTokens` | `redeem_token` with its early returns. The stage "lock" waits for the token row; `Refuse`, `RedeemAgain`, `FindExpired` are the immediate answers, `DeleteExpired` the delete *after* the transaction; `BeginValidation` keeps the lock, then either `ReuseClient`, `CommitReused` or `NeedClient`, the registration, `CommitRegistered`; `Fail` rolls back. `Proceed` is a request that goes on, `MustFail` one that cannot. Around it: `Lapse`, `EnsureToken`, `DeviceDeleted`, `MemberRemoved`, and `Others`, the registrations of the same clients that redeem no token (device codes, `create_developmental_client`). |
| `RedeemTicket` | The abstract promise: a ticket is settled in one step, repeated, withdrawn or issued. |
| `DeviceCodes` | Start, the poll cut between reading an expired code and deleting it, the acceptance (read, register, whole-row save that may insert the row again), `validatecode`, and `BeginDevelop`, `create_developmental_client`, whose organization is any the user is a member of, whatever the composition of the calling client. |
| `ClientReports` | Read the client, save the whole row. |
| `FaktsServer` | The three flows on one set of tables; a removed membership takes tokens and codes. |
| `Memberships` | Rows, roles, layers, the policies ionscale holds, and each request's position: `Leave`/`Delete`, `Update`/`SetRoles`/`Save`, `Ensure`/`FindOrInsert`/`ClearRoles`/`AddRole`, `CreateLayer`, `UpdateLayer`; `SyncRead`, `SyncPush`, `SyncFail`, `EndSync` are the signal's receiver, in the transaction or after it. |
| `Invites` | Reading an invite, looking for a membership, inserting it, its roles, answering; each a statement of its own; composed with `Memberships`. The roles of an invite are a constant. |
| `Deployments` | The tables of one organization's deployment, and their deletion: `Collect` reads what depends on a composition (`Dependents`), `CommitDeletion` deletes it by primary key (`Cascade`) unless a row has come to depend on it since; `DeletionFails` is the foreign key that fails or the deadlock that is resolved. |
| `Composing` | A registration's transaction, requirement by requirement: `SkipDeclined`, `MapInstance`, `SkipUnavailable`, `MissMandatory`; `draft[r]` is what it has not committed; `CommitRegistration` replaces the client's mappings and statuses. `Admits` is the access filter, with the precedence of `&` over `\|` that the code has. |
| `PartnerCompositions` | `connect_kommunity_partner` and the boot that imports and connects the configured partners: the upsert and its commit (`BeginApply`, `CommitApply`), the hook asked outside the transaction (`HookApproves`, `HookRejects`), the deletion after a rejection. |
| `StagedCodes` | Composition and service codes: start, expired polls, and the acceptance, which has no transaction, statement by statement from `CreateComposition` to `Grant`, each with its failure. |
| `Claims` | `ClaimView` and `ClaimCompositionView`, read by read. |
| `DeploymentHub` | All of these interleaved. |
| `Accounts` | Tables of users, organizations, memberships, OAuth rows; `Begin`, `Restart` (a boot cuts what runs), the cascades. |
| `Organizations` | `create_organization`, `update_organization`, `delete_organization`, signup, joining, leaving, roles, active organizations, the signals, and the boot commands (`EnsureOrg`, `FindMember`, ...). |
| `OAuthTokens` | Accepting an authorization request, the token endpoint in authlib's order (`QueryCode`, `SaveToken`, `SpendCode`; `QueryRefreshToken`, `SaveToken`, `RevokeToken`), and `expand_token` for API requests. |
| `Tailnets` | A tailnet is created in ionscale, the row inserted, a policy pushed; a key is minted, then stored. |
| `Social` | Channels, comments, stashes: `update_or_create` that locks only what it finds. |
| `Inventory` | Read, change in memory, save the whole row; unique constraints per kind; access lists replaced one by one. |
| `AccountServer` | All of these interleaved. |
| `MC...` | Model values and symmetry. |
| `...Proofs` | The proofs about the module they are named after; `FaktsProofs` is about `FaktsServer`, `HubProofs` about `DeploymentHub`, `AccountProofs` and, on top of it, `AccountSafetyProofs` about `AccountServer`. |

Definitions whose comment starts with "Mutant" are deliberate bugs (a dropped lock, a
forgotten filter, a missing save). They are not part of any specification; with one of
them in the place of its original, the property it belongs to fails.

## The runs

| run | instance | shows |
|---|---|---|
| `redeem_race` | 3 redemptions and another registration, 3 tokens in 2 compositions, 2 versions, a client that no token is bound to | `OneClientPerKey`, `TokenClientsAreDistinct` |
| `redeem_lifecycle` | 2 redemptions and another registration, 3 tokens (one redeemed before hashes were recorded and configured at boot, one fresh, both expiring; one redeemable again), a deletable device; fair | `RedeemTypeOK`, `OneManifestPerToken`, `LapsedIsNeverBound`, `RedeemingIsAtomic`, `EveryRedeemAnswered` |
| `device_codes` | 1 code, 2 acceptances or developmental registrations by 2 users in 2 organizations with a composition each, a deletable device; fair | `DeviceTypeOK`, `AnswersWereAccepted`, `ExpiredIsFinal`, `AcceptedIsDelivered` |
| `fakts_flows` | 1 redemption, 1 acceptance or developmental registration by either of 2 users, 1 report, 2 organizations with a composition each, a client of another app that may ask for developmental clients, a deletable device | `FaktsTypeOK`, `TokenClientFitsUser`, `SecretsStayHome` |
| `invites` | 3 requests of any kind, 2 users, 1 expiring invite, 2 layers (one not created yet) | `InviteTypeOK`, `AcceptGrantsItsRoles`, `ClosedInviteAdmitsNobody`, `UndisturbedSyncIsExact` |
| `deployments` | 2 requests that write and a claim; 3 partners (one with a hook, two connected at the start), 2 composition codes, 1 service code, 2 instance tokens, 1 app with 2 manifests; fair | `HubTypeOK`, `BuiltinRolesStay`, `RejectedIsGone`, `GrantedIsWhole`, `MappedInOwnComposition`, `StatusesTellMappings`, `ClaimShowsOneComposition`, `MappingsAreLostForAReason`, `RequestsEnd` |
| `accounts` | up to 3 requests and a restart, 3 users, one organization with a tailnet at the start | `ServerTypeOK`, `OwnerIsAdmin`, `ClientsGoWithOrganization`, `CredentialsAreSpent`, `TokensFitTheirGrant`, `ContextFitsToken`, `TwinsOverlap`, `ChannelKeepsLastAnswer`, `NotifiedAreMentioned`, `AnswersStand`, `BootRepairs`, `BootKeepsMembers` |
| `redeem_first_app` | 2 requests, empty tables | a violation of `OneAppPerIdentifier` |
| `redeem_device_deleted` | 2 requests, 2 tokens, a deletable device | a violation of `OneClientPerKey` |
| `fakts_report` | an acceptance and a report | a violation of `ReportKeepsRegistration` |
| `invite_twice` | 2 requests, 3 users, 1 invite | a violation of `InviteIsUsedOnce` |
| `policy_stale` | 2 requests, 3 users, 1 layer | a violation of `SettledPolicyIsExact` |

**Bounds.** The bounds are the sizes of the sets, and `Limit` in `accounts`. Requests
are used up, so every run is finite and may stop when all are through and no surrounding
event is left: the configurations say `CHECK_DEADLOCK FALSE` for that reason. That
nobody waits for ever on a lock is what `EveryRedeemAnswered` and `RequestsEnd` check in
its stead. Two tokens and two requests suffice for every two-party race; in
`redeem_race` a third redemption and a registration that redeems nothing run beside any
two that race for the same clients. One redemption, one registration and one report in
`fakts_flows` are one of each flow: the client of the bound token is moved into the
composition of the other organization, and rolled back from there by the report, while
the token is redeemed. Three requests in `invites` let an invite be accepted while a
member is being changed by a second request and leaves by a third. Symmetry is used for
requests that are alike, and only in runs without liveness.

In `deployments` the two writing requests may be any two of connecting a partner, a
boot, accepting a composition or a service code, registering the app with or without
its optional requirement, and deleting a composition; a server and a device are
deleted, codes drawn and expired at any time; the third request claims, as a client or
as a server, so that its reads fall between any statements of the other two. Services
of the organization's own partners are there once; of one another organization may
have deployed there may be two rows, which every `get_or_create` of it fails on. The
composition identifiers of partners differ from the empty one of an accepted code
there, as the theorem `RejectedGone` assumes.

In `accounts` organizations, tokens and what users keep have no rows in common but users
and memberships. So the operations are not all explored together but by *topics*,
sets of operations chosen so that everything that reads a row meets everything that
writes or deletes it: three requests of a topic, two together with a restart (one for
comments and messages, whose steps multiply by the notified users), which cuts
them at any statement. The founder u1 owns the organization; u2 is a member and the
owner the configuration wants; u3 has to sign up first.

**Fairness.** `EveryRedeemAnswered` assumes weak fairness of each request's next
statement: a worker that has begun a request goes on with it, and PostgreSQL hands a row
lock on when its holder ends. It covers `Proceed` and the failures that cannot be
avoided, `MustFail`: a request may fail at any statement, but no wait is assumed to end
that way, so a request that waits for the Release row is answered only because its
holder ends. Registrations that redeem nothing are treated alike. The insertion of one
device by two registrations, which can close a circle of locks, is not modelled as a
lock; PostgreSQL detects that deadlock and fails one of them, which is `Rollback`.
`AcceptedIsDelivered` assumes only that an app that started a code keeps polling (it is
the app's own protocol); it speaks of acceptances that have committed. `RequestsEnd`
assumes only that the server goes on with *some* request it has begun: locks are
released, a deadlock is resolved against one of its parties, the hook's call times out
after ten seconds; no request is favoured. Nothing is assumed of users, clocks, boot
commands, new requests and deletions.

## The theorems

Proved for all values of the constants, from the `ASSUME`s of the modules (names of
requests, rows and model values do not clash, and `None` is none of them; the seeded
rows are consistent):

| theorem | statement |
|---|---|
| of `RedeemTokens` | |
| `TypeCorrect` | `Spec => []RedeemTypeOK` |
| `OneManifest` | `Spec => []OneManifestPerToken` |
| `ClientsDistinct` | `Spec => []TokenClientsAreDistinct` |
| `LapsedUnbound` | `Spec => LapsedIsNeverBound` |
| `OneClient` | `DeletableNode = {} => (Spec => []OneClientPerKey)` |
| `RedeemingRefines` | `Spec => RedeemingIsAtomic`, that is, `RedeemTokens` implements `RedeemTicket` |
| of `DeviceCodes` | |
| `TypeCorrect` | `Spec => []DeviceTypeOK` |
| `OnlyAccepted` | `Spec => []AnswersWereAccepted` |
| `ExpiredFinal` | `Spec => ExpiredIsFinal` |
| of `FaktsServer` | |
| `FlowsTyped` | `Spec => []FaktsTypeOK` |
| `TokenClientsFit` | `Spec => []TokenClientFitsUser` |
| `SecretsHome` | `Spec => []SecretsStayHome` |
| `OneManifestAmongFlows` | `Spec => []Redeeming!OneManifestPerToken` |
| `RedeemingStaysAtomic` | `Spec => Redeeming!RedeemingIsAtomic`, that is, `FaktsServer` implements `RedeemTicket` too |
| of `DeploymentHub` | |
| `TypeCorrect` | `HubSpec => []HubTypeOK` |
| `DefaultRoles` | `HubSpec => []BuiltinRolesStay` |
| `MappedAtHome` | `HubSpec => []MappedInOwnComposition` |
| `StatusesTell` | `HubSpec => []StatusesTellMappings` |
| `ClaimsShowOne` | `HubSpec => []ClaimShowsOneComposition` |
| `MappingsStay` | `HubSpec => MappingsAreLostForAReason` |
| `GrantedWhole` | `HubSpec => []GrantedIsWhole` |
| `RejectedGone` | `HooksAreNamed => (HubSpec => []RejectedIsGone)` |
| of `Invites` | |
| `TypeCorrect` | `Spec => []InviteTypeOK` |
| `ClosedInvite` | `Spec => ClosedInviteAdmitsNobody` |
| `AcceptRoles` | `Spec => []AcceptGrantsItsRoles` |
| `SyncExact` | `Spec => UndisturbedSyncIsExact` |
| of `AccountServer` | |
| `ServerTyped` | `ServerSpec => []ServerTypeOK` |
| `OwnersAreAdmins` | `ServerSpec => []OwnerIsAdmin` |
| `BootLeavesMembers` | `ServerSpec => BootKeepsMembers` |
| `BootsRepair` | `ServerSpec => BootRepairs` |
| `NoClientLeftBehind` | `ServerSpec => []ClientsGoWithOrganization` |
| `GrantsAreKept` | `ServerSpec => []TokensFitTheirGrant` |
| `ContextsFitTokens` | `ServerSpec => []ContextFitsToken` |
| `CodesAreSpent` | `ServerSpec => []CredentialsAreSpent` |
| `MentionsFitNotifications` | `ServerSpec => []NotifiedAreMentioned` |
| `TwinsAreConcurrent` | `ServerSpec => []TwinsOverlap` |
| `ChannelsKeepLastAnswer` | `ServerSpec => []ChannelKeepsLastAnswer` |
| `AnswersAreKept` | `ServerSpec => []AnswersStand` |

`DeletableNode = {}` says that no device is deleted; the run `redeem_device_deleted` is
the counterexample without it. `HooksAreNamed` says that the
composition of every partner with a hook has an identifier, which the manifest's model
requires but lets be empty (`fakts/base_models.py:174`). With an empty one the partner
upserts the row that the acceptance of a code has created; the hook rejects, the row is
deleted, and when the acceptance saves its auth key the rejected row is inserted again.
TLC finds that trace when the run's `p1` gets the empty identifier and is first
applied by a boot.

The argument for `RedeemTokens` rests on three inductive invariants, each a conjunction
of named parts. All are kept by the registrations of `Others` too.

* `Typing` adds to the type invariant that a bound token's client is there, that a
  held token is there, and that a request in its registering stage has a registration;
  without these, "the secret of the token's client" has no type.
* `Binding` says that a token row has one holder at a time, that a held row is one that
  may still be bound, that two rows never share a client, and that the answers given
  about a row that may not be redeemed again all repeat what the row says. The last part is
  what makes `OneManifestPerToken` inductive: the property alone speaks of answers
  only and says nothing about the row the next answer is taken from. The refinement
  and `LapsedUnbound` use it too.
* `Keyed` says that one transaction at a time holds a Release, and that the client a
  registration is about to write is still the only match of its key (or its key is
  still free). The unique constraint is not used: it does not compare NULL.

The refinement maps a token row to a ticket (client and manifest, no expiry) and
forgets requests, locks and registrations. Each action is a ticket step or a stutter:
`Bind` is `Settle`, `RedeemAgain` is `Repeat`, `DeleteExpired` and `MemberRemoved` are
`Withdraw`, `EnsureToken` is `Issue`.

For `DeviceCodes` there are two. `Typing` adds to the types that a registration under way
is shaped for its stage and that a code's client is there. `Accepting` says that a
registration runs for the user and organization of its acceptance
(`RunsForItsAcceptance`), inserts a new row only at its end (`InsertsAtTheEnd`) and
otherwise updates a client of the same user and organization (`UpdatesItsOwn`), and that
the client a code row names was accepted for that code (`CodesWereAccepted`): the poll
answers from the row, while the property speaks of answers only. `ExpiredFinal` needs
`Typing` and that a code whose app was told "expired" has lapsed, which the row's second
insertion does not undo.

For `FaktsServer` there are four, over the same registry (`SameSteps` says that the flows
have its actions under names of their own).

* `Typing` is that of the two flows together, and that a report which has read a client
  remembers whose it was. `FaktsAssumption` says that redemptions and acceptances are
  different requests, so one's registration is not the other's, and that a token bound
  at the start is bound to a client of its own user.
* `Fitting` adds whose a client is. `Settled`: a registration that has found a client is
  for that client's user and organization, and the row a request would insert is not
  there before. So registering moves a client between compositions, also into one of
  another organization, but never between users nor from the organization it is keyed
  to (`HomesKept`), and a client that went never comes back: its
  request has ended. `RedeemFits` is the property and that a redemption's client, reused
  or being registered, is one for its token; `AcceptFits` and `ReportFits` say that an
  acceptance registers for its user, and that a report writes back whose the client is.
  The property alone is not inductive: a token keeps its client while a report or
  an acceptance rewrites that client's row.
* `Binding` is that of `RedeemTokens`, over the composed steps. The other flows leave
  tokens, redemptions and answers alone (`UNCHANGED redeemVars` in `FaktsServer!Next`);
  what has to be shown anew is that a commit still binds a client row that is there
  when acceptances register in the same tables (`CommitBinds`), and that a removed
  membership, which here takes the codes of its clients too, takes no token that a
  redemption holds (`RemovedTokens`). From it follow `OneManifestAmongFlows` and
  `RedeemingStaysAtomic`, with the same refinement mapping as above. No run states
  either for the composition: `redeem_lifecycle` checks both for `RedeemTokens`.
* `Home` carries `SecretsStayHome`: every secret that a client has, that a redemption or
  a report has read, or that was handed out is in `Minted` with the user and the
  organization it is used for. Each step uses only what was used before or has just
  been minted, and what was minted stays so, since a registration that has ended is not
  written again (`EndedKept`). The property alone is not inductive: an answer takes its
  secret from a row.

For `DeploymentHub` there are four.

* `Typing` is the type invariant and `Shape`: which operations can be at a stage, and
  that the composition, the draft, the target and the answer a stage works on are there.
* `Fitting` is, beside the properties, what carries them over a commit: that
  a draft has mapped instances of its own composition only and has told "granted" for
  the keys it has come by (`DraftFits`), that *all* mappings of a client lead into one
  composition, also those that a manifest without requirements leaves behind when its
  client moves (`OneComposition`, which `MappedInOwnComposition` does not say and the
  claims need), that a claim has read such mappings (`ShownFits`), and that a deletion
  has collected instances of its composition only (`CollectedFits`). `DefaultRoles` needs
  no more than that no instance becomes the creator of a role that none created.
* `Whole` follows a composition from its acceptance to the server: a composition of a
  code has every instance its acceptance has not still to insert (`Made`, `Making`), a
  granted code's composition is one whose acceptance has ended (`GrantedFits`), and so is
  the one a server claims (`ServedFits`). A composition that was deleted and inserted
  again by a stale save is the exception the property names, and the only one.
* `Turning` is `RejectedIsGone` and why nothing brings the row back: an upsert has either
  found its composition, whose row it then holds against the deletion, or inserts one of
  its own that nobody else has seen (`InsertsNew`). For the latter a request must
  apply a partner once only: a partner whose composition this request has inserted is
  never among those it has still to take (`AppliesOnce`, `TakenOut`). The compositions that
  acceptances insert, and insert again, are not those a hook was asked about
  (`AsksForPartners`). `QuietTurning` covers every step that does none of this.

For `Invites` there are five.

* `Typing` adds to the types what the stage of a request says of its operation, user,
  row and invite (`Fit`, `Uses`).
* `Unique`: at most one row per user, *and* a user whose row is being inserted in an open
  transaction has none and is being inserted by nobody else. The second part carries
  the first over the commit.
* `Home`: a row belongs to the user of the request that inserted it, for good, even
  when a save brings it back after a deletion; whoever refers to the row acts on that
  user; an accept refers to no row but its own. So any other writer of an
  accepted membership's roles is a request that changes that user's roles.
* `Granting`: from the moment they are set, the roles of an accepted membership are
  those of its invite. `AcceptGrantsItsRoles` speaks of answered accepts only and is not
  inductive without the stage before.
* `Exact`: as long as a push is undisturbed, what it has read and what it has pushed
  is what its request would still read. At its end, `CommitShows` proves that this is
  what everybody reads after the commit, for the signals inside the transaction of an
  insertion or a deletion and those after it.

`ClosedInvite` needs `Typing` alone: only a request that is accepting inserts a row from
an invite, and only an invite that can be accepted gets a new such request.

For `AccountServer` all theorems share one invariant, `ServerInv`, and most add one of
their own.

* `ServerInv` is the type invariant and what the types rest on. `Flow`: a request is at a
  statement of its program, the requests in `past[r]` have ended, and while a boot runs
  nothing else does. `Recorded`, `InMemory`: what a request has read and goes on with at
  its statement, row by row. `Births`: an organization, or a slug that was made up, has
  only been written by the request it is named by, or by one that has read it; an
  insertion therefore finds its row free. `SocialFacts`, `InventoryRows` and
  `InventoryFacts` say the same of channels, comments, stashes and inventory.
* `OwnersKept` is `OwnerIsAdmin` during the signal: an organization that is not `unkept`
  has its owner for an admin *or* a request is between the save that called the signal
  and the statement that gives the role, on that organization and for that owner. It
  needs `CollectedFit`: a deletion takes memberships only of the organizations and users
  it takes, so no organization that stays loses its owner's membership by it.
* `TokenFacts`: what a code was granted for never changes (`grants`), every token is
  of its grant, also through refreshes, and an organization has had every slug that a JWT
  names it by (`held`). `TailnetFacts`: a tailnet is of one organization for ever, and a
  request that stores a layer or asks for a key has the one of its organization. The two
  give `GrantsAreKept` and `ContextsFitTokens`.
* `SpentFacts`: a credential that was answered for is spent and stays so (`Spent`), and
  a request that has found it unspent cannot have begun after that answer.
* `MentionFacts`: notifying comes after all mentions are found, attaching them last.
* `TwinFacts`: a request that is about to insert has found no row of an earlier
  request; `Grows` shows that only such requests add a row.
* `Answered`, `Chosen`: what a request has answered was last written by it or by one
  that is not in its past, statement by statement for what takes several.
* `BootFacts`: a running boot none of whose commands has failed has done what its commands
  so far are for, command by command (`Repaired`) and, within one command, statement by
  statement (`Ready`); as nothing else runs meanwhile nothing of it is undone. It is
  inductive only with what the boot remembers of the rows it has looked up.

**Only model-checked**: liveness (`EveryRedeemAnswered`, `AcceptedIsDelivered`,
`RequestsEnd`), which is outside the prover.

## What the code does not keep

Five runs exhibit a difference between the code and a statement in the repository;
`PROJECT.json` quotes both sides.

* `redeem_first_app`: two first registrations of an app insert two App rows, after
  which each registration of that identifier fails.
* `redeem_device_deleted`: deleting a device leaves two clients with one key.
* `fakts_report`: a report undoes a registration committed while it ran.
* `invite_twice`: a single-use link lets in everybody who opened it at the same time.
* `policy_stale`: a tailnet keeps a policy that lists who has left.

Others were met while modelling and have no run of their own. The models have them
where they change state; a property that would forbid them is stated without them.

Registrations, tokens and codes:

* The delete of an expired token (`clients.py:231`) looks neither at `expires_at` nor
  at a lock again and removes a token that `ensuretokens` created in between.
* `clients.py:221` announces that a changed manifest updates the client; a client of the
  same identifier, version and device is returned as it is (`:157`).
* The client a redemption has read is not locked, and the client a token is bound to may
  be registered again at any time. Two requests and plain tokens suffice: an accepted
  device code or `create_developmental_client` for the same key between the read and
  the commit, and the answer carries a replaced secret; between two redemptions of one
  token, and the second answer names a client in another composition. Another token's
  redemption does the same when tokens can be redeemed again. So no property says that
  an answer's secret is the present one or its client in the token's composition;
  `SecretsStayHome` and `TokenClientFitsUser` are what remains.
* An acceptance under way when a poll deletes the expired code inserts the row again
  (`device_codes.py:145`). `ExpiredIsFinal` shows the app is not granted it.
* `create_developmental_client` registers for the user and organization of the request in
  the composition of the calling client (`graphql/mutations/client.py:22`, `:39`), and
  a token is issued for any membership of its user and any client
  (`authorize_code.py:33`). A client keyed to one organization is so put, or moved,
  into a composition of another. No property says that a client stays in a composition
  of its organization.

Deployments:

* A composition whose code is being accepted and that is deleted meanwhile is inserted
  again, without its instances, when the auth key is stored: the exception in
  `GrantedIsWhole`.
* A composition accepted from a code has no identifier, and the second such
  composition of an organization fails; so does the second client of a staged
  composition (both get one token), and a service code whose instance nobody has yet.
* A rejected partner's composition is deleted even when it was there, approved, before.
  If that deletion fails, it stays.
* The access filter of instances binds `&` closer than `|`: with no allowed users,
  denied users and groups are not looked at.
* A client registered anew with a manifest that requires nothing keeps the mappings of
  the composition it left.
* A redeemed instance that is deleted leaves "granted" in the statuses of its clients.
* The self alias of a claim passes `is_secure` to a model whose field is `ssl`, so it
  always says `ssl`.

Accounts:

* Deleting an organization deletes the accounts of all users active in it and the
  organizations those own, transitively, also of users who chose another one between
  the collection and the deletion.
* Tailnets and auth keys stay in ionscale when their rows are not stored or are
  deleted; `create_ionscale_layer` asks nothing of the caller.
* An API request with a JWT is not refused after its token was refreshed or revoked;
  only `user_info` looks at the row. A code or a refresh token is answered twice to
  overlapping requests, and after a cut.
* A signup whose organization failed or was cut is never repaired; "<username>-org" may
  be another organization, and the new user becomes its admin. An organization whose
  creation was cut gets no profile and no admin unless it is the configured one.
* `change_org` lets a user select any organization, `accept_authorize_code` does not
  relate the client's organization to the membership's, and nothing sets
  `OAuth2Client.membership`.
* A failing push makes `accept_invite` fail after the membership is committed: the
  member has no roles, and accepting again takes the branch of an existing member,
  which never assigns them.
* `update_membership` saves the row it read, and so brings back a member who has left
  meanwhile, without roles. Stale saves bring back devices, aliases, profiles and users
  in the same way.
* Twins of channels and stash items, once there, make later registrations fail.
* The lists of who may use an instance are replaced one after another
  (`fakts/graphql/mutations/instance.py:19`): two requests leave a mixture.

Operations that always raise, or act on something else: `change_organization_owner`,
`decline_device_code` and the declining mutations of the other two codes, the management
API's `create_redeem_token` and its token queries (they filter a field the model
lacks), `create_alias`, `create_service_instance`, `create_instance_alias`, `reply_to`,
`resolve_comment`, the stash queries (their filter names a field `user`),
`delete_stash` (which answers an error after deleting), `decline_authorize_code` (which
changes nothing), `update_ionscale_layer` (its `blocked_for` does not exist),
`delete_ionscale_layer` (it deletes an InstanceAlias). `OpenIDCode.exists_nonce`,
`save_authorization_code` with its `user` and `create_fake_linking_context` are not
called. The reuse filter of `validate_device_code` matches no row.

## Not modelled, and why

* GraphQL types, filters and schemas, manifests and configuration models, settings and
  migrations: declarations without state of their own. What settings say of
  PostgreSQL is an assumption of the models.
* I/O: presigned uploads, the parsing of the ionscale CLI's tables, how an alias is
  worded for the caller's network (linking contexts), templates, logging.
* Commands that only print or check the configuration.
* Expiry is an event that may come at any time after its row was written, not a clock.
* UsedAlias rows, `created_through`, `accepted_by` and the like: written, and read by
  nothing that is modelled.
* Rows of other organizations, except services, which are shared, and what `Accounts`
  has of memberships in several organizations.
* A role deleted with the instance that created it while an invite names the role: the
  roles of an invite are a constant of `Invites`, so `AcceptGrantsItsRoles` is about
  roles that stay.
* The deployment of `DeploymentHub` is one organization's, all of whose clients are in its
  compositions: what moves a client into one of another organization is modelled in
  `FaktsServer` only.

Some hazards are in the models and in no property, or in one only in part:

* `GrantedIsWhole` excepts a composition that a stale save has inserted again.
* `MappedInOwnComposition` excepts manifests that require nothing, whose clients keep the
  mappings of the composition they left; that a claim shows one composition even so is
  `ClaimShowsOneComposition`.
* `StatusesTellMappings` excepts manifests that name a key twice, and is one direction
  only: a status may say "granted" after the mapping went with its instance.
  `MappingsAreLostForAReason` says through which steps a mapping can go.
* `AnswersStand` asks who wrote a row last, not what it has become: it does not notice a
  deleted row that the stale save of an overlapping request inserts again, nor the
  columns such a save sets back.
* The topics of `accounts` do not reach a second organization that takes over a slug;
  that tokens and tailnets stay with the first even then rests on the theorems
  `GrantsAreKept` and `ContextsFitTokens`.

A crash of a worker is a rollback of its transaction, which `Fail`, `Rollback`,
`FailAccept`, `FailReport`, `ApplyFails` and `DeletionFails` allow at the statements of
one. A crash between two autocommitted statements is a request that takes no further
step, which every specification without fairness allows; in `AccountServer` it is
`Restart`, which the boot commands follow.
