------------------------------- MODULE Links -------------------------------
(***************************************************************************)
(* Connections between organisations (links.service.ts, link-code.ts): an  *)
(* organisation that keeps a book invites a row of its address book and    *)
(* hands over a code; whoever enters the code is connected to that row and *)
(* may read its receipts.  The path by a verified phone number (discover,  *)
(* accept) is there too.  The database keeps a second layer: the trigger   *)
(* partner_links_guard, one live link per row of the address book, unique  *)
(* codes.                                                                  *)
(***************************************************************************)
EXTENDS Chain

CONSTANTS
  MaxLinks,     \* bound: links ever created
  MaxCodes,     \* bound: codes ever handed out
  Partners,     \* rows of the address books
  OwnerOf,      \* [Partners -> Orgs]
  KindOf,       \* [Partners -> {"supplier", "buyer"}]
  PhoneOf,      \* [Partners -> phone]: the number in the address book
  Verified,     \* [Orgs -> phone]: the number the caller has verified (verifiedPhone)
  NoPhone,
  StartLinks,   \* SUBSET [LinkIds -> Link]: the links a run may start from
  NoLink,
  GoneLink      \* a link that was deleted: its id is never given again

LinkIds == 1..MaxLinks

(* invite_code is a number, 0 = null; `age` stands for its expiry: `late`  *)
(* in the last hour, `over` after it.                                      *)
Link == [partner: Partners, linked: Orgs \cup {NoOrg}, status: {"pending", "active", "revoked"},
         code: 0..MaxCodes, age: {"fresh", "late", "over"}]

Trail == [action: {"invited", "renewed", "accepted", "revoked"}, org: Orgs]

ASSUME LinksAssumption ==
  /\ MaxLinks \in Nat /\ MaxCodes \in Nat /\ LinkIds \subseteq Refs
  /\ OwnerOf \in [Partners -> Orgs]
  /\ KindOf \in [Partners -> {"supplier", "buyer"}]
  /\ StartLinks \subseteq [LinkIds -> Link \cup {NoLink}]
  /\ \A start \in StartLinks, l \in LinkIds : start[l] # NoLink =>
       start[l].code = 0 /\ (start[l].status = "active" => start[l].linked # NoOrg)
  /\ NoLink \notin Link /\ GoneLink \notin Link /\ NoLink # GoneLink

VARIABLES
  links,     \* partner_links
  codes,     \* codes handed out so far
  trail      \* the link.* entries of audit_log, for each link

partnerLinks == <<links, codes, trail>>

LinksInit ==
  /\ links \in StartLinks
  /\ codes = 0
  /\ trail = [l \in LinkIds |->
                IF links[l] # NoLink /\ links[l].status = "active"
                  THEN <<[action |-> "accepted", org |-> links[l].linked]>> ELSE <<>>]

LinksTypeOK ==
  /\ links \in [LinkIds -> Link \cup {NoLink, GoneLink}]
  /\ codes \in 0..MaxCodes
  /\ \A l \in LinkIds : \A i \in DOMAIN trail[l] : trail[l][i] \in Trail

Exists(l) == links[l] \notin {NoLink, GoneLink}
Owner(l) == OwnerOf[links[l].partner]
Live(p) == {l \in LinkIds : Exists(l) /\ links[l].partner = p /\ links[l].status # "revoked"}
Unused == {l \in LinkIds : links[l] = NoLink}
Logged(l, action, org) == [trail EXCEPT ![l] = Append(@, [action |-> action, org |-> org])]

(* An active link of `owner`'s book, of that kind, to `linked`.            *)
Connected(owner, linked, kind) ==
  \E l \in LinkIds : /\ Exists(l) /\ links[l].status = "active" /\ links[l].linked = linked
                     /\ Owner(l) = owner /\ KindOf[links[l].partner] = kind

-----------------------------------------------------------------------------
(* partner_links_guard, before every update of a row of api_service.       *)

(* Slip: a link that was revoked can be opened again.                      *)
FrozenEndsOnly(old, new) == old.linked # NoOrg /\ new.linked # old.linked

Frozen(old, new) ==
  \/ old.linked # NoOrg /\ new.linked # old.linked
  \/ old.status = "revoked" /\ new.status # "revoked"
  \/ old.status = "active" /\ new.status = "pending"
  \/ new.status = "active" /\ old.status # "active" /\ new.linked = NoOrg

(* What is in the row after the update: nothing new when the trigger       *)
(* raises, and never a code when the link is not pending.                  *)
Guarded(old, new) ==
  IF Frozen(old, new) THEN old
  ELSE IF new.status # "pending" THEN [new EXCEPT !.code = 0, !.age = "over"] ELSE new

Update(l, new) == links' = [links EXCEPT ![l] = Guarded(@, new)]
Accepted(l, new) == ~Frozen(links[l], new)

-----------------------------------------------------------------------------
(* invite                                                                  *)

needsFreshCode(l) == links[l].code = 0 \/ links[l].age # "fresh"

LinkRequest(op, org, partner, l, status) ==
  [op |-> op, org |-> org, partner |-> partner, link |-> l, status |-> status]

(* The live link of the row is given back as it is, renewed, or made.      *)
Invite(w, p) ==
  /\ Can(OwnerOf[p], "partner:manage")
  /\ codes < MaxCodes
  /\ \/ /\ Live(p) = {}
        /\ Unused # {}
        /\ Open(w, LinkRequest("link.create", OwnerOf[p], p, 0, "none"))
     \/ \E l \in Live(p) :
          /\ links[l].status = "pending" /\ needsFreshCode(l)
          /\ Open(w, LinkRequest("link.renew", OwnerOf[p], p, l, "pending"))
  /\ UNCHANGED <<present, locked, events, notices, lost, faults, partnerLinks>>

(* partner_links_one_live refuses a second live link of the row.  (A code  *)
(* that exists already makes withFreshCodeRetry start over: not a step.)   *)
InsertInvite(w) ==
  /\ Serving(w, {"link.create"})
  /\ ~Waits({req[w].org})
  /\ IF KeysHold({req[w].org}) /\ Live(req[w].partner) = {} /\ codes < MaxCodes /\ Unused # {}
       THEN \E l \in Unused :
              /\ \A i \in Unused : l <= i
              /\ links' = [links EXCEPT ![l] =
                   [partner |-> req[w].partner, linked |-> NoOrg, status |-> "pending",
                    code |-> codes + 1, age |-> "fresh"]]
              /\ codes' = codes + 1
              /\ trail' = Logged(l, "invited", req[w].org)
       ELSE UNCHANGED partnerLinks
  /\ Close(w)
  /\ UNCHANGED <<present, locked, events, notices, lost, faults>>

RenewInvite(w) ==
  /\ Serving(w, {"link.renew"})
  /\ LET l == req[w].link
     IN  IF Exists(l) /\ codes < MaxCodes
           THEN /\ Update(l, [links[l] EXCEPT !.code = codes + 1, !.age = "fresh"])
                /\ codes' = codes + 1
                /\ trail' = Logged(l, "renewed", req[w].org)
           ELSE UNCHANGED partnerLinks
  /\ Close(w)
  /\ UNCHANGED <<present, locked, events, notices, lost, faults>>

CodeAges(l) ==
  /\ Exists(l) /\ links[l].code # 0 /\ links[l].age # "over"
  /\ links' = [links EXCEPT ![l].age = IF @ = "fresh" THEN "late" ELSE "over"]
  /\ UNCHANGED <<chain, codes, trail>>

-----------------------------------------------------------------------------
(* claim, accept, discover, revoke                                         *)

(* claim_link: one UPDATE, whose condition is evaluated again on the row   *)
(* as it is once it is not locked any more.                                *)
Opens(l, org, code) ==
  /\ Exists(l) /\ links[l].code = code /\ links[l].age # "over"
  /\ links[l].status = "pending"
  /\ Owner(l) # org /\ Owner(l) \in present
  /\ links[l].linked \in {NoOrg, org}

claim(org, code) ==
  /\ Can(org, "linked:read") /\ ~Waits({org})
  /\ \E l \in LinkIds :
       /\ Opens(l, org, code)
       /\ Update(l, [links[l] EXCEPT !.linked = org, !.status = "active"])
       /\ trail' = Logged(l, "accepted", org)
       /\ emit(Event("link.accepted", l, org))
  /\ UNCHANGED <<present, locked, req, notices, lost, faults, codes>>

(* discover_links: invitations to the caller's verified number become the  *)
(* caller's, and rows with that number that were never linked to the       *)
(* caller become invitations without a code.                               *)
discover(org) ==
  /\ Can(org, "linked:read") /\ Verified[org] # NoPhone /\ ~Waits({org})
  /\ LET Mine == {l \in LinkIds : /\ Exists(l) /\ links[l].status = "pending"
                                  /\ links[l].linked = NoOrg /\ Owner(l) # org
                                  /\ PhoneOf[links[l].partner] = Verified[org]}
         New  == {p \in Partners :
                    /\ OwnerOf[p] \in present \ {org} /\ PhoneOf[p] = Verified[org]
                    /\ Live(p) = {}
                    /\ \A l \in LinkIds : Exists(l) /\ links[l].partner = p => links[l].linked # org}
     IN  /\ Mine # {} \/ New # {}
         /\ Cardinality(New) <= Cardinality(Unused)
         /\ ~Waits({OwnerOf[p] : p \in New})
         /\ \E row \in [New -> Unused] :
              /\ \A p, q \in New : row[p] = row[q] => p = q
              /\ links' = [l \in LinkIds |->
                   IF l \in Mine THEN [links[l] EXCEPT !.linked = org]
                   ELSE IF \E p \in New : row[p] = l
                     THEN [partner |-> CHOOSE p \in New : row[p] = l, linked |-> org,
                           status |-> "pending", code |-> 0, age |-> "over"]
                   ELSE links[l]]
  /\ UNCHANGED <<chain, codes, trail>>

Accept(w, org, l) ==
  /\ Can(org, "linked:read")
  /\ Exists(l) /\ links[l].linked = org /\ links[l].status = "pending"
  /\ Verified[org] # NoPhone /\ Verified[org] = PhoneOf[links[l].partner]
  /\ Open(w, LinkRequest("link.accept", org, links[l].partner, l, "pending"))
  /\ UNCHANGED <<present, locked, events, notices, lost, faults, partnerLinks>>

DoAccept(w) ==
  /\ Serving(w, {"link.accept"})
  /\ LET l == req[w].link
         new == [links[l] EXCEPT !.status = "active"]
     IN  IF Exists(l) /\ links[l].linked = req[w].org /\ Accepted(l, new)
           THEN /\ Update(l, new)
                /\ trail' = Logged(l, "accepted", req[w].org)
                /\ emit(Event("link.accepted", l, req[w].org))
           ELSE UNCHANGED <<links, trail, events>>
  /\ Close(w)
  /\ UNCHANGED <<present, locked, notices, lost, faults, codes>>

Revoke(w, org, l) ==
  /\ Exists(l) /\ links[l].status # "revoked"
  /\ \/ Owner(l) = org /\ Can(org, "partner:manage")
     \/ Owner(l) # org /\ links[l].linked = org /\ Can(org, "linked:read")
  /\ Open(w, LinkRequest("link.revoke", org, links[l].partner, l, links[l].status))
  /\ UNCHANGED <<present, locked, events, notices, lost, faults, partnerLinks>>

DoRevoke(w) ==
  /\ Serving(w, {"link.revoke"})
  /\ LET l == req[w].link
     IN  IF Exists(l) /\ req[w].org \in {Owner(l), links[l].linked}
           THEN /\ Update(l, [links[l] EXCEPT !.status = "revoked"])
                /\ trail' = Logged(l, "revoked", req[w].org)
                /\ emit(Event("link.revoked", l, req[w].org))
           ELSE UNCHANGED <<links, trail, events>>
  /\ Close(w)
  /\ UNCHANGED <<present, locked, notices, lost, faults, codes>>

-----------------------------------------------------------------------------
(* notify_link: the other side of the link as it is when the listener runs.*)
NotifyLink ==
  /\ \E e \in BagToSet(events) :
       /\ e.kind \in {"link.accepted", "link.revoked"}
       /\ events' = BagRemove(events, e)
       /\ LET l == e.ref
              to == IF Owner(l) = e.actor THEN links[l].linked ELSE Owner(l)
          IN  IF Exists(l) /\ e.actor \in {Owner(l), links[l].linked} /\ to # NoOrg
                THEN /\ ~Waits({to})
                     /\ Tell(to, l, [kind |-> e.kind, from |-> e.actor])
                ELSE UNCHANGED notices
  /\ UNCHANGED <<present, locked, req, lost, faults, partnerLinks>>

LinksNext ==
  \/ \E w \in Workers, p \in Partners : Invite(w, p)
  \/ \E w \in Workers, org \in Orgs, l \in LinkIds : Accept(w, org, l) \/ Revoke(w, org, l)
  \/ \E w \in Workers : InsertInvite(w) \/ RenewInvite(w) \/ DoAccept(w) \/ DoRevoke(w)
  \/ \E org \in Orgs, code \in 1..MaxCodes : claim(org, code)
  \/ \E org \in Orgs : discover(org)
  \/ \E l \in LinkIds : CodeAges(l)
  \/ NotifyLink

-----------------------------------------------------------------------------
(* Two people of one side, the two sides, or a claim and a renewal work on *)
(* the same link at once.  A code lives only as long as the link waits for *)
(* someone: whatever was read before, a link that was accepted or revoked  *)
(* meanwhile never carries one again (renewal at links.service.ts:192).    *)
CodeOnlyWhilePending ==
  \A l \in LinkIds : Exists(l) /\ links[l].code # 0 => links[l].status = "pending"

(* Whoever reads the receipts of another book agreed to it and neither     *)
(* side has said no since: the audit log of an active link has no refusal, *)
(* and every consent in it is of the organisation that is linked now, even *)
(* when a consent and a refusal, or two claims, overlap.                   *)
ActiveIsAgreed ==
  \A l \in LinkIds : Exists(l) /\ links[l].status = "active" =>
    /\ \E i \in DOMAIN trail[l] : trail[l][i] = [action |-> "accepted", org |-> links[l].linked]
    /\ \A i \in DOMAIN trail[l] :
         /\ trail[l][i].action # "revoked"
         /\ trail[l][i].action = "accepted" => trail[l][i].org = links[l].linked

(* A link is what both sides agreed to: it can be claimed only while it     *)
(* waits, and once active it keeps the ends the accepting side saw.         *)
LinkAgreed == CodeOnlyWhilePending /\ ActiveIsAgreed
=============================================================================
