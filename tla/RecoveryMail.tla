---------------------------- MODULE RecoveryMail ----------------------------
(***************************************************************************)
(* The recovery address of a profile (recovery-mail.service.ts and the     *)
(* change of it in profile.service.ts): a link is mailed to the address,   *)
(* whoever opens it confirms the address, and only a confirmed address is  *)
(* mailed a link to set a new password or finds the account at the login.  *)
(*                                                                         *)
(* A request is READ COMMITTED transactions and one mail between them; a   *)
(* transaction that reads and then writes is two steps.  Time runs in      *)
(* ticks.  A token stands for its hash: the number of the request that made*)
(* it.                                                                     *)
(***************************************************************************)
EXTENDS Integers, FiniteSets

CONSTANTS
  Users, Addresses, NoAddress,
  Calls,       \* requests that can be open at the same time
  NoCall,
  Cooldown,    \* MAIL_COOLDOWN_MS, in ticks
  TokenLife,   \* VERIFY_TTL_MS, in ticks
  MailLife,    \* the timeouts of the mailer and of the transaction after it, in ticks
  MaxTime,     \* bound: the clock stops there
  MaxRequests  \* bound: requests ever made

ASSUME RecoveryMailAssumption ==
  /\ NoAddress \notin Addresses
  /\ {Cooldown, TokenLife, MailLife, MaxTime, MaxRequests} \subseteq Nat

Tokens == 1..MaxRequests
NoToken == 0
Never == -1

Profile == [email: Addresses \cup {NoAddress}, verified: BOOLEAN, token: Tokens \cup {NoToken},
            expires: Int, sentAt: Int, live: BOOLEAN]

VARIABLES
  clock,
  account,   \* profiles
  call,      \* open requests
  asked,     \* requests made so far
  mailbox,   \* links to confirm that have arrived, with the address they went to
  sent,      \* ghost: the mails let through, arrived or not: for whom, when, by which request
  freed,     \* ghost: those of them (by request) whose time was taken back as that of a mail that failed
  told,      \* ghost: the link that the user was told of last ("sent"), while the address
             \* stays and no newer one was let through
  proved,    \* ghost: addresses confirmed, with the mailbox whose link was opened
  resets     \* ghost: links to set a password, with the address they went to

ghosts == <<sent, freed, told, proved, resets>>
mailing == <<clock, account, call, asked, mailbox, ghosts>>

RecoveryMailInit ==
  /\ clock = 0
  /\ account = [u \in Users |-> [email |-> NoAddress, verified |-> FALSE, token |-> NoToken,
                                 expires |-> Never, sentAt |-> Never, live |-> TRUE]]
  /\ call = [c \in Calls |-> NoCall]
  /\ asked = 0 /\ mailbox = {}
  /\ sent = {} /\ freed = {} /\ told = [u \in Users |-> NoToken] /\ proved = {} /\ resets = {}

(* find_login_user                                                         *)
verifiedOwnerOf(address) ==
  {u \in Users : account[u].live /\ account[u].verified /\ account[u].email = address}

(* `moved`: ghost, the address was changed after it was read.              *)
Request(step, u, to, token, moved) ==
  [step |-> step, who |-> u, to |-> to, token |-> token, now |-> clock, moved |-> moved]

Begin(c, step, u, to, moved) ==
  /\ call[c] = NoCall /\ asked < MaxRequests
  /\ call' = [call EXCEPT ![c] = Request(step, u, to, asked + 1, moved)]
  /\ asked' = asked + 1
At(c, step) == call[c] # NoCall /\ call[c].step = step
NextStep(c, step) == call' = [call EXCEPT ![c].step = step]
End(c) == call' = [call EXCEPT ![c] = NoCall]

(* A transaction ends within its five seconds (the default of Prisma), far *)
(* less than a tick; a mail that fails is taken back within MailLife.  The *)
(* mail with a link to set a password may take any time.                   *)
InTime(c) == At(c, "send") \/ At(c, "retract") => clock < call[c].now + MailLife

Tick ==
  /\ clock < MaxTime
  /\ \A c \in Calls : ~At(c, "claim") /\ InTime(c)
  /\ clock' = clock + 1
  /\ UNCHANGED <<account, call, asked, mailbox, ghosts>>

-----------------------------------------------------------------------------
(* sendVerification                                                        *)

CanVerify(u, address) ==
  /\ account[u].live /\ address # NoAddress /\ ~account[u].verified
  /\ verifiedOwnerOf(address) \subseteq {u}

(* Asked for on the profile page.                                          *)
AskVerification(c, u) ==
  /\ CanVerify(u, account[u].email)
  /\ Begin(c, "claim", u, account[u].email, FALSE)
  /\ UNCHANGED <<clock, account, mailbox, ghosts>>

Cool(u, now) == account[u].sentAt = Never \/ account[u].sentAt < now - Cooldown
LetThrough(kind, u, at, token) ==
  sent' = sent \cup {[kind |-> kind, who |-> u, at |-> at, by |-> token]}

(* The conditional update: the token and the time, before the mail is sent.*)
ClaimVerification(c) ==
  /\ At(c, "claim")
  /\ LET r == call[c]
     IN  IF account[r.who].live /\ Cool(r.who, r.now)
           THEN /\ account' = [account EXCEPT ![r.who].token = r.token,
                                ![r.who].expires = r.now + TokenLife, ![r.who].sentAt = r.now]
                /\ LetThrough("verification", r.who, r.now, r.token)
                /\ told' = [told EXCEPT ![r.who] = NoToken]
                /\ NextStep(c, "send")
           ELSE End(c) /\ UNCHANGED <<account, sent, told>>
  /\ UNCHANGED <<clock, asked, mailbox, freed, proved, resets>>

(* The provider takes the mail, or fails; an answer that is late (10 s)    *)
(* looks like a failure of a mail that arrives.                            *)
SendVerification(c) ==
  /\ At(c, "send")
  /\ LET u == call[c].who
         mail == [to |-> call[c].to, token |-> call[c].token, moved |-> call[c].moved]
     IN  \/ /\ mailbox' = mailbox \cup {mail}
            /\ told' = [told EXCEPT ![u] = IF account[u].token = mail.token THEN mail.token ELSE @]
            /\ End(c)
         \/ /\ mailbox' \in {mailbox, mailbox \cup {mail}}
            /\ NextStep(c, "retract") /\ UNCHANGED told
  /\ UNCHANGED <<clock, account, asked, sent, freed, proved, resets>>

(* Slip: whatever token the profile has is taken back.                     *)
OwnTokenOrNewer(u, token) == TRUE

OwnToken(u, token) == account[u].token = token

(* The resets that the time of the profile stands for.                     *)
LastReset(u) == {s.by : s \in {m \in sent : m.kind = "reset" /\ m.who = u /\ m.at = account[u].sentAt}}

(* A failed mail takes back its own token and the time, whoever wrote that *)
(* one, or fails to.                                                       *)
TakeBack(c) ==
  /\ At(c, "retract")
  /\ LET u == call[c].who
     IN  \/ /\ OwnToken(u, call[c].token)
            /\ account' = [account EXCEPT ![u].token = NoToken, ![u].expires = Never, ![u].sentAt = Never]
            /\ freed' = freed \cup {call[c].token} \cup LastReset(u)
         \/ UNCHANGED <<account, freed>>
  /\ End(c)
  /\ UNCHANGED <<clock, asked, mailbox, sent, told, proved, resets>>

-----------------------------------------------------------------------------
(* confirm                                                                 *)

(* profiles_recovery_email_verified                                        *)
Free(u) == verifiedOwnerOf(account[u].email) \subseteq {u}

(* confirm_recovery_email: one UPDATE.  An address that somebody else has  *)
(* confirmed makes it fail, the token stays.                               *)
Confirm(mail) ==
  /\ mail \in mailbox
  /\ \E u \in Users :
       /\ account[u].live /\ account[u].token = mail.token /\ account[u].expires > clock
       /\ account[u].email # NoAddress
       /\ Free(u)
       /\ account' = [account EXCEPT ![u].verified = TRUE, ![u].token = NoToken, ![u].expires = Never]
       /\ proved' = proved \cup {[who |-> u, email |-> account[u].email, by |-> mail.to, moved |-> mail.moved]}
       /\ told' = [told EXCEPT ![u] = NoToken]
  /\ UNCHANGED <<clock, call, asked, mailbox, sent, freed, resets>>

-----------------------------------------------------------------------------
(* ProfileService.update, as far as the address goes                       *)

AskChange(c, u, address) ==
  /\ account[u].live
  /\ address # NoAddress => verifiedOwnerOf(address) \subseteq {u}
  /\ Begin(c, "change", u, address, account[u].email # address)
  /\ UNCHANGED <<clock, account, mailbox, ghosts>>

(* guard_recovery_email                                                    *)
WithAddress(row, address) ==
  IF row.email = address THEN row
  ELSE [row EXCEPT !.email = address, !.verified = FALSE, !.token = NoToken, !.expires = Never]

WriteProfile(c) ==
  /\ At(c, "change")
  /\ LET u == call[c].who
         address == call[c].to
     IN  /\ account' = IF account[u].live THEN [account EXCEPT ![u] = WithAddress(@, address)] ELSE account
         /\ call' = [d \in Calls |->
              IF d = c THEN IF account[u].live /\ call[c].moved /\ address # NoAddress
                              THEN [call[c] EXCEPT !.step = "quietly"] ELSE NoCall
              ELSE IF At(d, "claim") /\ call[d].who = u /\ account[u].email # address
                THEN [call[d] EXCEPT !.moved = TRUE]
              ELSE call[d]]
         /\ told' = IF account[u].email = address THEN told ELSE [told EXCEPT ![u] = NoToken]
  /\ UNCHANGED <<clock, asked, mailbox, sent, freed, proved, resets>>

(* sendVerificationQuietly, after the change has been committed            *)
VerifyQuietly(c) ==
  /\ At(c, "quietly")
  /\ LET u == call[c].who
     IN  IF CanVerify(u, account[u].email)
           THEN call' = [call EXCEPT ![c] = Request("claim", u, account[u].email, call[c].token, FALSE)]
           ELSE End(c)
  /\ UNCHANGED <<clock, account, asked, mailbox, ghosts>>

(* The account is deleted.                                                 *)
DropProfile(u) ==
  /\ account[u].live /\ asked < MaxRequests
  /\ account' = [account EXCEPT ![u] =
       [email |-> NoAddress, verified |-> FALSE, token |-> NoToken, expires |-> Never,
        sentAt |-> Never, live |-> FALSE]]
  /\ asked' = asked + 1
  /\ told' = [told EXCEPT ![u] = NoToken]
  /\ UNCHANGED <<clock, call, mailbox, sent, freed, proved, resets>>

-----------------------------------------------------------------------------
(* requestPasswordReset: the user is looked up (a name or a number finds   *)
(* every live profile), then claim_password_reset_mail.                    *)

AskReset(c, u) ==
  /\ account[u].live
  /\ Begin(c, "reset", u, NoAddress, FALSE)
  /\ UNCHANGED <<clock, account, mailbox, ghosts>>

ResetTo(u) == account[u].live /\ account[u].email # NoAddress /\ account[u].verified

(* The time stays even when the mail fails.                                *)
ClaimReset(c) ==
  /\ At(c, "reset")
  /\ LET u == call[c].who
     IN  IF ResetTo(u) /\ Cool(u, clock)
           THEN /\ account' = [account EXCEPT ![u].sentAt = clock]
                /\ LetThrough("reset", u, clock, call[c].token)
                /\ call' = [call EXCEPT ![c].step = "post", ![c].to = account[u].email]
           ELSE End(c) /\ UNCHANGED <<account, sent>>
  /\ UNCHANGED <<clock, asked, mailbox, freed, told, proved, resets>>

SendReset(c) ==
  /\ At(c, "post")
  /\ \/ resets' = resets \cup {<<call[c].who, call[c].to>>}
     \/ UNCHANGED resets
  /\ End(c)
  /\ UNCHANGED <<clock, account, asked, mailbox, sent, freed, told, proved>>

RecoveryMailNext ==
  \/ Tick
  \/ \E c \in Calls, u \in Users : AskVerification(c, u) \/ AskReset(c, u)
  \/ \E c \in Calls, u \in Users, address \in Addresses \cup {NoAddress} : AskChange(c, u, address)
  \/ \E c \in Calls :
       \/ ClaimVerification(c) \/ SendVerification(c) \/ TakeBack(c)
       \/ WriteProfile(c) \/ VerifyQuietly(c) \/ ClaimReset(c) \/ SendReset(c)
  \/ \E mail \in mailbox : Confirm(mail)
  \/ \E u \in Users : DropProfile(u)

RecoveryMailSpec == RecoveryMailInit /\ [][RecoveryMailNext]_mailing

-----------------------------------------------------------------------------
(* An address belongs to one account at most: two profiles may name the    *)
(* same one, and only the first whose link is opened keeps it              *)
(* (recovery-mail.service.ts:29).                                          *)
OneOwner == \A address \in Addresses : Cardinality(verifiedOwnerOf(address)) <= 1

(* Nobody's mailbox is flooded: however requests overlap, a mail is let   *)
(* through for an account only when the one before it is further away than *)
(* the cooldown (:6), arrived or not, unless the time of that one was taken*)
(* back (:110).  That is what happens to a link to confirm whose sending   *)
(* was reported as failed, even when the mail arrived and only its answer  *)
(* was late: the next may follow at once, and both are in the mailbox.  A  *)
(* link to set a password never gives its own time back; a mail to confirm *)
(* that outlives the cooldown may give it back in its place, and if mails  *)
(* end within the cooldown, none does.                                     *)
Mails == {s \in sent : s.by \notin freed}

MailsAreRare ==
  /\ \A s \in Mails, t \in sent : s.who = t.who /\ s.at < t.at => s.at < t.at - Cooldown
  /\ \A s, t \in Mails : s # t /\ s.who = t.who => s.at # t.at
  /\ MailLife <= Cooldown => \A s \in sent : s.kind = "reset" => s \in Mails

(* The link that a person was told of works: no mail that fails later      *)
(* takes it away (:109), only a newer one or another address does.         *)
ToldLinkWorks == \A u \in Users : told[u] # NoToken => account[u].token = told[u]

(* A link to set a password goes only to an address for which a link in its*)
(* own mailbox was opened: an unconfirmed address is only what somebody    *)
(* typed (:4).  Unless the address was changed between the read and the    *)
(* update of sendVerification (:85-101): then the link that proves the new *)
(* address was mailed to the old one.                                      *)
ResetOnlyToProvedUnlessMoved ==
  \A r \in resets : \E p \in proved : p.who = r[1] /\ p.email = r[2] /\ (p.by = r[2] \/ p.moved)

(* A proved address has one owner and a password goes nowhere else; mails   *)
(* keep their distance, and the link told of in the last one works.         *)
MailsSound == OneOwner /\ MailsAreRare /\ ToldLinkWorks /\ ResetOnlyToProvedUnlessMoved
=============================================================================
