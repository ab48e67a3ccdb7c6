------------------------- MODULE RecoveryMailProofs -------------------------
(***************************************************************************)
(* Theorems about the recovery address and its mails (RecoveryMail) for    *)
(* any users, addresses, number of open requests and times.                *)
(*                                                                         *)
(* The invariant has one part for each thing that a request holds on to    *)
(* while its mail is under way: its token, the time it wrote, the address  *)
(* it read.  Steps that change none of the three keep it.                  *)
(***************************************************************************)
EXTENDS RecoveryMail, FiniteSetTheorems, TLAPS

RequestSteps == {"claim", "send", "retract", "change", "quietly", "reset", "post"}
OpenRequest == [step : RequestSteps, who : Users, to : Addresses \cup {NoAddress},
                token : Tokens, now : Nat, moved : BOOLEAN]
Letter == [to : Addresses \cup {NoAddress}, token : Tokens, moved : BOOLEAN]
Passed == [kind : {"verification", "reset"}, who : Users, at : Nat, by : Tokens]

MailTyped ==
  /\ clock \in Nat
  /\ account \in [Users -> Profile]
  /\ call \in [Calls -> OpenRequest \cup {NoCall}]
  /\ asked \in 0..MaxRequests
  /\ mailbox \subseteq Letter
  /\ sent \subseteq Passed
  /\ told \in [Users -> Tokens \cup {NoToken}]

OnItsWay(c) == call[c] # NoCall /\ call[c].step \in {"send", "retract"}
Own(c) == account[call[c].who].token = call[c].token

(* A number names one request: who has it is that request, its mail, or a  *)
(* profile that it wrote.                                                  *)
TokensHeld ==
  /\ \A c, d \in Calls : call[c] # NoCall /\ call[d] # NoCall /\ c # d => call[c].token # call[d].token
  /\ \A c \in Calls : call[c] # NoCall => call[c].token <= asked
  /\ \A c \in Calls, u \in Users : call[c] # NoCall => told[u] # call[c].token
  /\ \A c \in Calls, u \in Users :
       call[c] # NoCall /\ account[u].token = call[c].token => u = call[c].who
  /\ \A c \in Calls, u \in Users :
       call[c] # NoCall /\ account[u].token = call[c].token => OnItsWay(c)
  /\ \A c \in Calls, m \in mailbox :
       call[c] # NoCall /\ m.token = call[c].token => At(c, "retract")
  /\ \A u \in Users : account[u].token <= asked /\ told[u] <= asked
  /\ \A m \in mailbox : m.token <= asked

PassesHeld ==
  /\ \A s \in sent : s.by <= asked
  /\ \A s, t \in sent : s.by = t.by => s = t
  /\ \A s \in sent, c \in Calls : call[c] # NoCall /\ s.by = call[c].token =>
       OnItsWay(c) \/ (At(c, "post") /\ s.kind = "reset")
  /\ \A c \in Calls : OnItsWay(c) =>
       [kind |-> "verification", who |-> call[c].who, at |-> call[c].now, by |-> call[c].token] \in sent
  /\ \A b \in freed : \E s \in sent : s.by = b
  /\ \A c \in Calls : OnItsWay(c) => call[c].token \notin freed

(* The time of a profile is that of the last mail let through, but for the *)
(* mails freed.                                                           *)
TimesHeld ==
  /\ \A c \in Calls : call[c] # NoCall => call[c].now <= clock
  /\ \A c \in Calls : At(c, "claim") => call[c].now = clock
  /\ \A c \in Calls : OnItsWay(c) => clock <= call[c].now + MailLife
  /\ \A s \in sent : s.at <= clock
  /\ \A s \in Mails : account[s.who].live =>
       s.at = account[s.who].sentAt \/ s.at < clock - Cooldown
  /\ \A c \in Calls : OnItsWay(c) /\ Own(c) =>
       \A s \in Mails : s.who = call[c].who /\ s.kind = "verification" /\ s.by # call[c].token =>
         s.at < call[c].now - Cooldown
  /\ MailLife <= Cooldown =>
       \A c \in Calls : OnItsWay(c) /\ Own(c) => account[call[c].who].sentAt = call[c].now

(* A link goes to the address it confirms, unless the address moved.       *)
ProvedFor(u, address) ==
  \E p \in proved : p.who = u /\ p.email = address /\ (p.by = address \/ p.moved)

AddressesHeld ==
  /\ \A u, w \in Users :
       account[u].live /\ account[u].verified /\ account[w].live /\ account[w].verified
         /\ account[u].email = account[w].email => u = w
  /\ \A u \in Users : account[u].live /\ account[u].verified => ProvedFor(u, account[u].email)
  /\ \A c \in Calls : At(c, "post") => ProvedFor(call[c].who, call[c].to)
  /\ \A c \in Calls : At(c, "claim") /\ account[call[c].who].live =>
       call[c].to = account[call[c].who].email \/ call[c].moved
  /\ \A c \in Calls : OnItsWay(c) /\ Own(c) => call[c].to = account[call[c].who].email \/ call[c].moved
  /\ \A m \in mailbox, u \in Users : account[u].token = m.token => m.to = account[u].email \/ m.moved

MailInv ==
  /\ MailTyped /\ TokensHeld /\ PassesHeld /\ TimesHeld /\ AddressesHeld
  /\ MailsAreRare /\ ToldLinkWorks /\ ResetOnlyToProvedUnlessMoved

-----------------------------------------------------------------------------
(* Requests begin and end, and time passes.                                *)

LEMMA MailTypes ==
  ASSUME MailInv
  PROVE  /\ \A c \in Calls : call[c] # NoCall =>
              /\ call[c] \in OpenRequest /\ call[c].who \in Users /\ call[c].moved \in BOOLEAN
              /\ call[c].to \in Addresses \cup {NoAddress}
              /\ call[c].token \in Nat /\ call[c].token # NoToken /\ call[c].now \in Nat
         /\ \A u \in Users : account[u] \in Profile /\ account[u].token \in Nat /\ told[u] \in Nat
         /\ \A m \in mailbox : m.token \in Nat /\ m.token # NoToken
         /\ \A s \in sent : s.who \in Users /\ s.by \in Nat /\ s.at \in Nat
         /\ asked \in Nat /\ clock \in Nat /\ MailLife \in Nat /\ Cooldown \in Nat
         /\ Mails \subseteq sent
<1>1. Tokens \subseteq Nat /\ \A t \in Tokens : t # NoToken
  BY RecoveryMailAssumption DEF Tokens, NoToken
<1>2. \A c \in Calls : call[c] # NoCall => call[c] \in OpenRequest
  BY DEF MailInv, MailTyped
<1>3. \A r \in OpenRequest :
        /\ r.who \in Users /\ r.moved \in BOOLEAN /\ r.to \in Addresses \cup {NoAddress}
        /\ r.token \in Tokens /\ r.now \in Nat
  BY DEF OpenRequest
<1>4. \A u \in Users : account[u] \in Profile /\ account[u].token \in Tokens \cup {NoToken}
                        /\ told[u] \in Tokens \cup {NoToken}
  BY DEF MailInv, MailTyped, Profile
<1>5. /\ \A m \in mailbox : m.token \in Tokens
      /\ \A s \in sent : s.who \in Users /\ s.by \in Tokens /\ s.at \in Nat
  BY DEF MailInv, MailTyped, Letter, Passed
<1>6. asked \in Nat /\ clock \in Nat /\ MailLife \in Nat /\ Cooldown \in Nat
  BY RecoveryMailAssumption DEF MailInv, MailTyped
<1>7. NoToken \in Nat /\ Mails \subseteq sent
  BY DEF NoToken, Mails
<1> QED BY <1>1, <1>2, <1>3, <1>4, <1>5, <1>6, <1>7

LEMMA RequestEnds ==
  ASSUME MailInv, NEW c \in Calls, End(c),
         UNCHANGED <<clock, account, asked, mailbox, sent, freed, told, proved>>
  PROVE  /\ MailTyped' /\ TokensHeld' /\ PassesHeld' /\ TimesHeld' /\ AddressesHeld'
         /\ MailsAreRare' /\ ToldLinkWorks'
<1>1. /\ call' \in [Calls -> OpenRequest \cup {NoCall}]
      /\ \A d \in Calls : call'[d] = IF d = c THEN NoCall ELSE call[d]
  BY DEF MailInv, MailTyped, End
<1>2. /\ \A d \in Calls : OnItsWay(d)' => call'[d] = call[d] /\ call[d] # NoCall /\ Own(d)' = Own(d)
      /\ \A d \in Calls : call'[d] # NoCall => OnItsWay(d)' = OnItsWay(d)
  BY <1>1 DEF Own, OnItsWay, At
<1>3. Mails' = Mails
  BY DEF Mails
<1>4. MailTyped'
  BY <1>1 DEF MailInv, MailTyped
<1>5. TokensHeld'
  BY <1>1, <1>2 DEF MailInv, TokensHeld, At
<1>6. PassesHeld'
  BY <1>1, <1>2 DEF MailInv, PassesHeld, At
<1>7. TimesHeld'
  BY <1>1, <1>2, <1>3 DEF MailInv, TimesHeld, At
<1>8. AddressesHeld'
  BY <1>1, <1>2 DEF MailInv, AddressesHeld, OnItsWay, At, ProvedFor
<1>9. MailsAreRare' /\ ToldLinkWorks'
  BY <1>3 DEF MailInv, MailsAreRare, ToldLinkWorks
<1> QED BY <1>4, <1>5, <1>6, <1>7, <1>8, <1>9

LEMMA RequestBegins ==
  ASSUME MailInv, NEW c \in Calls, NEW step \in {"claim", "change", "reset"}, NEW u \in Users,
         NEW to \in Addresses \cup {NoAddress}, NEW moved \in BOOLEAN,
         Begin(c, step, u, to, moved), step = "claim" => to = account[u].email,
         UNCHANGED <<clock, account, mailbox, ghosts>>
  PROVE  MailInv'
<1> DEFINE r == Request(step, u, to, asked + 1, moved)
<1>1. /\ call' = [call EXCEPT ![c] = r] /\ \A d \in Calls : call'[d] = IF d = c THEN r ELSE call[d]
      /\ asked' = asked + 1 /\ asked' \in 0..MaxRequests /\ asked + 1 \in Tokens
  BY RecoveryMailAssumption DEF MailInv, MailTyped, Begin, Tokens
<1>2. /\ r \in OpenRequest /\ r.step = step /\ r.who = u /\ r.to = to /\ r.token = asked + 1
      /\ r.now = clock /\ r.moved = moved
  BY <1>1 DEF Request, OpenRequest, RequestSteps, MailInv, MailTyped
<1> HIDE DEF r
<1>3. /\ UNCHANGED <<clock, account, mailbox, sent, freed, told, proved, resets>>
      /\ asked \in Nat
  BY DEF ghosts, MailInv, MailTyped
<1>4. /\ \A d \in Calls : OnItsWay(d)' => d # c /\ OnItsWay(d) /\ Own(d)' = Own(d)
      /\ Mails' = Mails
  BY <1>1, <1>2, <1>3 DEF OnItsWay, At, Own, Mails
<1>5. MailTyped'
  BY <1>1, <1>2, <1>3 DEF MailInv, MailTyped
<1>6. TokensHeld'
  <2>1. \A d \in Calls : call[d] # NoCall => call[d].token \in Nat /\ call[d].token <= asked
    BY MailTypes DEF MailInv, TokensHeld
  <2>2. \A w \in Users : account[w].token \in Nat /\ account[w].token <= asked /\ told[w] \in Nat /\ told[w] <= asked
    BY MailTypes DEF MailInv, TokensHeld
  <2>3. \A m \in mailbox : m.token \in Nat /\ m.token <= asked
    BY MailTypes DEF MailInv, TokensHeld
  <2>4. \A d, e \in Calls : call'[d] # NoCall /\ call'[e] # NoCall /\ d # e => call'[d].token # call'[e].token
    BY <1>1, <1>2, <1>3, <2>1 DEF MailInv, TokensHeld
  <2>5. /\ \A d \in Calls : call'[d] # NoCall => call'[d].token <= asked'
        /\ \A d \in Calls, w \in Users : call'[d] # NoCall => told[w] # call'[d].token
    BY <1>1, <1>2, <1>3, <2>1, <2>2 DEF MailInv, TokensHeld
  <2>6. \A d \in Calls, w \in Users : call'[d] # NoCall /\ account[w].token = call'[d].token =>
          d # c /\ w = call'[d].who
    BY <1>1, <1>2, <1>3, <2>2 DEF MailInv, TokensHeld
  <2>7. \A d \in Calls, w \in Users : call'[d] # NoCall /\ account[w].token = call'[d].token =>
          OnItsWay(d)'
    BY <1>1, <2>6 DEF MailInv, TokensHeld, OnItsWay
  <2>8. \A d \in Calls, m \in mailbox : call'[d] # NoCall /\ m.token = call'[d].token =>
          At(d, "retract")'
    BY <1>1, <1>2, <1>3, <2>3 DEF MailInv, TokensHeld, At
  <2> QED BY <1>1, <1>3, <2>2, <2>3, <2>4, <2>5, <2>6, <2>7, <2>8 DEF TokensHeld
<1>7. PassesHeld'
  <2>1. \A s \in sent : s.by \in Nat /\ s.by <= asked
    BY MailTypes DEF MailInv, PassesHeld
  <2>2. \A s \in sent, d \in Calls : call'[d] # NoCall /\ s.by = call'[d].token =>
          OnItsWay(d)' \/ (At(d, "post")' /\ s.kind = "reset")
    BY <1>1, <1>2, <1>3, <2>1 DEF MailInv, PassesHeld, OnItsWay, At
  <2>3. \A d \in Calls : OnItsWay(d)' =>
          [kind |-> "verification", who |-> call'[d].who, at |-> call'[d].now, by |-> call'[d].token] \in sent
    BY <1>1, <1>4 DEF MailInv, PassesHeld
  <2>4. \A d \in Calls : OnItsWay(d)' => call'[d].token \notin freed'
    BY <1>1, <1>3, <1>4 DEF MailInv, PassesHeld
  <2> QED BY <1>1, <1>3, <2>1, <2>2, <2>3, <2>4 DEF MailInv, PassesHeld
<1>8. TimesHeld'
  BY <1>1, <1>2, <1>3, <1>4 DEF MailInv, MailTyped, TimesHeld, At
<1>9. AddressesHeld'
  BY <1>1, <1>2, <1>3, <1>4 DEF MailInv, AddressesHeld, At, ProvedFor
<1>10. MailsAreRare' /\ ToldLinkWorks' /\ ResetOnlyToProvedUnlessMoved'
  BY <1>3, <1>4 DEF MailInv, MailsAreRare, ToldLinkWorks, ResetOnlyToProvedUnlessMoved
<1> QED BY <1>5, <1>6, <1>7, <1>8, <1>9, <1>10 DEF MailInv

LEMMA TickKeeps ==
  ASSUME MailInv, Tick
  PROVE  MailInv'
<1>1. /\ clock' = clock + 1 /\ clock \in Nat
      /\ UNCHANGED <<account, call, asked, mailbox, sent, freed, told, proved, resets>>
      /\ \A c \in Calls : ~At(c, "claim") /\ (OnItsWay(c) => clock < call[c].now + MailLife)
  BY DEF Tick, ghosts, MailInv, MailTyped, InTime, OnItsWay, At
<1>2. /\ Mails' = Mails
      /\ \A c \in Calls : OnItsWay(c)' = OnItsWay(c) /\ Own(c)' = Own(c)
  BY <1>1 DEF Mails, OnItsWay, At, Own
<1>3. MailTyped' /\ TokensHeld' /\ PassesHeld'
  BY <1>1, <1>2 DEF MailInv, MailTyped, TokensHeld, PassesHeld, At
<1>6. AddressesHeld'
  BY <1>1, <1>2 DEF MailInv, AddressesHeld, At, ProvedFor
<1>4. TimesHeld'
  <2>1. \A c \in Calls : OnItsWay(c) => call[c] # NoCall
    BY DEF OnItsWay, At
  <2> QED BY <1>1, <1>2, <2>1, MailTypes DEF MailInv, TimesHeld, At
<1>5. MailsAreRare' /\ ToldLinkWorks' /\ ResetOnlyToProvedUnlessMoved'
  BY <1>1, <1>2 DEF MailInv, MailsAreRare, ToldLinkWorks, ResetOnlyToProvedUnlessMoved
<1> QED BY <1>3, <1>4, <1>5, <1>6 DEF MailInv

-----------------------------------------------------------------------------
(* sendVerification.                                                       *)

(* One more mail is let through: it is the only one with its number.       *)
LEMMA LetThroughApart ==
  ASSUME MailInv, NEW c \in Calls, At(c, "claim") \/ At(c, "reset"),
         NEW kind \in {"verification", "reset"}, account[call[c].who].live,
         LetThrough(kind, call[c].who, clock, call[c].token), Cool(call[c].who, clock),
         freed' = freed
  PROVE  LET e == [kind |-> kind, who |-> call[c].who, at |-> clock, by |-> call[c].token]
         IN  /\ e \in Passed /\ sent' = sent \cup {e} /\ Mails' = Mails \cup {e}
             /\ \A s \in sent : s.by # e.by
             /\ \A s \in Mails : s.who = e.who => s.at < clock - Cooldown
             /\ MailsAreRare'
<1> DEFINE e == [kind |-> kind, who |-> call[c].who, at |-> clock, by |-> call[c].token]
<1>0. call[c] # NoCall /\ ~OnItsWay(c) /\ ~At(c, "post")
  BY DEF At, OnItsWay
<1>1. e \in Passed /\ sent' = sent \cup {e}
  BY <1>0, MailTypes DEF Passed, LetThrough, OpenRequest
<1>2. e.who = call[c].who /\ e.at = clock /\ e.by = call[c].token
  OBVIOUS
<1> HIDE DEF e
<1>3. \A s \in sent : s.by # e.by
  BY <1>0, <1>2 DEF MailInv, PassesHeld
<1>4. e.by \notin freed
  BY <1>3 DEF MailInv, PassesHeld
<1>5. Mails' = Mails \cup {e}
  BY <1>1, <1>4 DEF Mails
<1>6. \A s \in Mails : s.who = e.who => s.at < clock - Cooldown
  BY <1>0, <1>2, MailTypes DEF MailInv, TimesHeld, Cool, Never
<1>7. \A s \in sent : s.at <= clock /\ s.at \in Nat
  BY MailTypes DEF MailInv, TimesHeld
<1>8. MailsAreRare'
  <2>1. \A s \in Mails', t \in sent' : s.who = t.who /\ s.at < t.at => s.at < t.at - Cooldown
    BY <1>1, <1>2, <1>5, <1>6, <1>7, MailTypes DEF MailInv, MailsAreRare
  <2>2. \A s, t \in Mails' : s # t /\ s.who = t.who => s.at # t.at
    BY <1>2, <1>5, <1>6, <1>7, MailTypes DEF MailInv, MailsAreRare
  <2>3. MailLife <= Cooldown => \A s \in sent' : s.kind = "reset" => s \in Mails'
    BY <1>1, <1>5 DEF MailInv, MailsAreRare
  <2> QED BY <2>1, <2>2, <2>3 DEF MailsAreRare
<1> QED BY <1>1, <1>3, <1>5, <1>6, <1>8 DEF e

LEMMA ClaimVerificationKeeps ==
  ASSUME MailInv, NEW c \in Calls, ClaimVerification(c)
  PROVE  MailInv'
<1> DEFINE u == call[c].who
           token == call[c].token
<1>0. call[c] # NoCall /\ At(c, "claim") /\ ~OnItsWay(c) /\ call[c].now = clock /\ u \in Users
      /\ token \in Tokens /\ clock + TokenLife \in Int /\ clock \in Int
  BY MailTypes, RecoveryMailAssumption
  DEF ClaimVerification, At, OnItsWay, MailInv, TimesHeld, OpenRequest
<1>1. CASE ~(account[u].live /\ Cool(u, clock))
  <2>1. End(c) /\ UNCHANGED <<clock, account, asked, mailbox, sent, freed, told, proved, resets>>
    BY <1>0, <1>1 DEF ClaimVerification
  <2> QED BY <2>1, RequestEnds DEF MailInv, ResetOnlyToProvedUnlessMoved
<1>2. CASE account[u].live /\ Cool(u, clock)
  <2> DEFINE e == [kind |-> "verification", who |-> u, at |-> clock, by |-> token]
  <2>1. /\ account' = [account EXCEPT ![u].token = token, ![u].expires = clock + TokenLife,
                                      ![u].sentAt = clock]
        /\ LetThrough("verification", u, clock, token)
        /\ told' = [told EXCEPT ![u] = NoToken] /\ NextStep(c, "send")
        /\ UNCHANGED <<clock, asked, mailbox, freed, proved, resets>>
    BY <1>0, <1>2 DEF ClaimVerification
  <2>2. /\ account' \in [Users -> Profile]
        /\ \A w \in Users : w # u => account'[w] = account[w]
        /\ account'[u].token = token /\ account'[u].sentAt = clock
        /\ \A w \in Users : /\ account'[w].live = account[w].live /\ account'[w].email = account[w].email
                            /\ account'[w].verified = account[w].verified
    <3>1. account \in [Users -> Profile]
      BY DEF MailInv, MailTyped
    <3> HIDE DEF u, token
    <3> QED BY <1>0, <2>1, <3>1 DEF Profile
  <2>3. /\ told' \in [Users -> Tokens \cup {NoToken}]
        /\ \A w \in Users : told'[w] = IF w = u THEN NoToken ELSE told[w]
    BY <1>0, <2>1 DEF MailInv, MailTyped
  <2>4. /\ call' \in [Calls -> OpenRequest \cup {NoCall}]
        /\ \A d \in Calls : d # c => call'[d] = call[d]
        /\ call'[c].step = "send" /\ call'[c].who = u /\ call'[c].token = token
        /\ call'[c].now = clock /\ call'[c].to = call[c].to /\ call'[c].moved = call[c].moved
    <3>1. [call[c] EXCEPT !.step = "send"] \in OpenRequest
      BY <1>0, MailTypes DEF OpenRequest, RequestSteps
    <3> QED BY <1>0, <2>1, <3>1 DEF NextStep, MailInv, MailTyped
  <2>5. /\ e \in Passed /\ sent' = sent \cup {e} /\ Mails' = Mails \cup {e}
        /\ \A s \in sent : s.by # token
        /\ \A s \in Mails : s.who = u => s.at < clock - Cooldown
        /\ MailsAreRare'
    BY <1>0, <1>2, <2>1, LetThroughApart
  <2>6. e.kind = "verification" /\ e.who = u /\ e.at = clock /\ e.by = token
    OBVIOUS
  <2> HIDE DEF u, token, e
  <2>7. MailTyped'
    BY <2>1, <2>2, <2>3, <2>4, <2>5 DEF MailInv, MailTyped
  <2>8. /\ \A d \in Calls : call'[d] # NoCall /\ d # c => call[d] # NoCall /\ call'[d].token # token
        /\ \A d \in Calls : OnItsWay(d)' /\ d # c => OnItsWay(d)
        /\ OnItsWay(c)' \/ call'[c] = NoCall
    BY <1>0, <2>4 DEF MailInv, TokensHeld, OnItsWay, token
  <2>9. TokensHeld'
    <3>1. \A w \in Users : account[w].token # token
      BY <1>0 DEF MailInv, TokensHeld, At, OnItsWay, u, token
    <3>2. \A m \in mailbox : m.token # token
      BY <1>0 DEF MailInv, TokensHeld, At, OnItsWay, u, token
    <3>3. token <= asked /\ token # NoToken /\ \A w \in Users : told[w] # token
      BY <1>0, MailTypes DEF MailInv, TokensHeld, u, token
    <3>4. \A d, f \in Calls : call'[d] # NoCall /\ call'[f] # NoCall /\ d # f => call'[d].token # call'[f].token
      BY <1>0, <2>4, <2>8 DEF MailInv, TokensHeld
    <3>5. \A d \in Calls : call'[d] # NoCall => call'[d].token <= asked
      BY <1>0, <2>4, <3>3 DEF MailInv, TokensHeld
    <3>6. \A d \in Calls, w \in Users : call'[d] # NoCall => told'[w] # call'[d].token
      BY <1>0, <2>3, <2>4, <2>8, <3>3, MailTypes DEF MailInv, TokensHeld
    <3>7. \A d \in Calls, w \in Users : call'[d] # NoCall /\ account'[w].token = call'[d].token => w = call'[d].who
      BY <1>0, <2>2, <2>4, <2>8, <3>1 DEF MailInv, TokensHeld
    <3>8. \A d \in Calls, w \in Users : call'[d] # NoCall /\ account'[w].token = call'[d].token => OnItsWay(d)'
      BY <1>0, <2>2, <2>4, <2>8, <3>1 DEF MailInv, TokensHeld, OnItsWay
    <3>9. \A d \in Calls, m \in mailbox : call'[d] # NoCall /\ m.token = call'[d].token => At(d, "retract")'
      BY <1>0, <2>4, <2>8, <3>2 DEF MailInv, TokensHeld, At
    <3>10. \A w \in Users : account'[w].token <= asked /\ told'[w] <= asked
      BY <1>0, <2>2, <2>3, <3>3, MailTypes DEF MailInv, TokensHeld, NoToken
    <3>11. \A m \in mailbox : m.token <= asked
      BY DEF MailInv, TokensHeld
    <3> QED BY <2>1, <3>4, <3>5, <3>6, <3>7, <3>8, <3>9, <3>10, <3>11 DEF TokensHeld
  <2>10. PassesHeld'
    <3>1. \A s \in sent' : s.by <= asked
      BY <1>0, <2>5, <2>6 DEF MailInv, PassesHeld, TokensHeld, token
    <3>2. \A s, t \in sent' : s.by = t.by => s = t
      BY <2>5, <2>6 DEF MailInv, PassesHeld
    <3>3. \A s \in sent', d \in Calls : call'[d] # NoCall /\ s.by = call'[d].token =>
            OnItsWay(d)' \/ (At(d, "post")' /\ s.kind = "reset")
      BY <2>4, <2>5, <2>6, <2>8 DEF MailInv, PassesHeld, OnItsWay, At
    <3>4. \A d \in Calls : OnItsWay(d)' =>
            [kind |-> "verification", who |-> call'[d].who, at |-> call'[d].now, by |-> call'[d].token] \in sent'
      BY <2>4, <2>5, <2>8 DEF MailInv, PassesHeld, e
    <3>5. \A b \in freed : \E s \in sent' : s.by = b
      BY <2>5 DEF MailInv, PassesHeld
    <3>6. \A d \in Calls : OnItsWay(d)' => call'[d].token \notin freed'
      BY <1>0, <2>1, <2>4, <2>5, <2>6, <2>8 DEF MailInv, PassesHeld
    <3> QED BY <2>1, <3>1, <3>2, <3>3, <3>4, <3>5, <3>6 DEF PassesHeld
  <2>11. TimesHeld'
    <3>1. /\ \A d \in Calls : call'[d] # NoCall => call'[d].now <= clock
          /\ \A d \in Calls : At(d, "claim")' => call'[d].now = clock
          /\ \A d \in Calls : OnItsWay(d)' => clock <= call'[d].now + MailLife
      BY <1>0, <2>4, <2>8, MailTypes DEF MailInv, TimesHeld, At
    <3>2. /\ \A s \in sent' : s.at <= clock
          /\ \A s \in Mails' : account'[s.who].live =>
               s.at = account'[s.who].sentAt \/ s.at < clock - Cooldown
      BY <1>0, <2>2, <2>5, <2>6, MailTypes DEF MailInv, TimesHeld
    <3>3. \A d \in Calls : OnItsWay(d)' /\ Own(d)' => d = c \/ (OnItsWay(d) /\ Own(d) /\ call[d].who # u)
      BY <2>2, <2>4, <2>8, MailTypes DEF Own, OnItsWay
    <3>5. \A d \in Calls : OnItsWay(d)' /\ Own(d)' =>
            \A s \in Mails' : s.who = call'[d].who /\ s.kind = "verification" /\ s.by # call'[d].token =>
              s.at < call'[d].now - Cooldown
      BY <2>4, <2>5, <2>6, <3>3 DEF MailInv, TimesHeld
    <3>6. MailLife <= Cooldown =>
            \A d \in Calls : OnItsWay(d)' /\ Own(d)' => account'[call'[d].who].sentAt = call'[d].now
      BY <2>2, <2>4, <3>3, MailTypes DEF MailInv, TimesHeld, OnItsWay
    <3> QED BY <2>1, <3>1, <3>2, <3>5, <3>6 DEF TimesHeld
  <2>12. AddressesHeld'
    <3>1. /\ \A w, x \in Users :
               account'[w].live /\ account'[w].verified /\ account'[x].live /\ account'[x].verified
                 /\ account'[w].email = account'[x].email => w = x
          /\ \A w \in Users : account'[w].live /\ account'[w].verified =>
               \E p \in proved' : p.who = w /\ p.email = account'[w].email /\ (p.by = account'[w].email \/ p.moved)
      BY <2>1, <2>2 DEF MailInv, AddressesHeld, ProvedFor
    <3>2. \A d \in Calls : At(d, "post")' =>
            \E p \in proved' : p.who = call'[d].who /\ p.email = call'[d].to /\ (p.by = call'[d].to \/ p.moved)
      BY <2>1, <2>4 DEF MailInv, AddressesHeld, ProvedFor, At
    <3>3. \A d \in Calls : At(d, "claim")' /\ account'[call'[d].who].live =>
            call'[d].to = account'[call'[d].who].email \/ call'[d].moved
      BY <2>2, <2>4, MailTypes DEF MailInv, AddressesHeld, At
    <3>4. \A d \in Calls : OnItsWay(d)' /\ Own(d)' =>
            call'[d].to = account'[call'[d].who].email \/ call'[d].moved
      <4>1. call[c].to = account[u].email \/ call[c].moved
        BY <1>0, <1>2 DEF MailInv, AddressesHeld, u
      <4>2. \A d \in Calls : OnItsWay(d)' /\ Own(d)' /\ d # c => call[d].who # u /\ Own(d)
        BY <2>2, <2>4, <2>8, MailTypes DEF Own, OnItsWay
      <4> QED BY <1>0, <2>2, <2>4, <2>8, <4>1, <4>2, MailTypes DEF MailInv, AddressesHeld, OnItsWay
    <3>5. \A m \in mailbox, w \in Users : account'[w].token = m.token => m.to = account'[w].email \/ m.moved
      BY <1>0, <2>2 DEF MailInv, AddressesHeld, TokensHeld, At, OnItsWay, u, token
    <3> QED BY <2>1, <3>1, <3>2, <3>3, <3>4, <3>5 DEF AddressesHeld, ProvedFor
  <2>13. MailsAreRare' /\ ToldLinkWorks' /\ ResetOnlyToProvedUnlessMoved'
    BY <2>1, <2>2, <2>3, <2>5
    DEF MailInv, MailsAreRare, ToldLinkWorks, ResetOnlyToProvedUnlessMoved
  <2> QED BY <2>7, <2>9, <2>10, <2>11, <2>12, <2>13 DEF MailInv
<1> QED BY <1>1, <1>2

(* The provider answered, or not: the mail may be there, the token stays.  *)
LEMMA SendVerificationKeeps ==
  ASSUME MailInv, NEW c \in Calls, SendVerification(c)
  PROVE  MailInv'
<1> DEFINE u == call[c].who
           token == call[c].token
           mail == [to |-> call[c].to, token |-> token, moved |-> call[c].moved]
<1>0. /\ call[c] # NoCall /\ At(c, "send") /\ OnItsWay(c) /\ u \in Users
      /\ token \in Tokens /\ token # NoToken
      /\ UNCHANGED <<clock, account, asked, sent, freed, proved, resets>> /\ Mails' = Mails
  BY MailTypes DEF SendVerification, At, OnItsWay, OpenRequest, Mails
<1>1. mail \in Letter /\ mail.to = call[c].to /\ mail.token = token /\ mail.moved = call[c].moved
  BY <1>0, MailTypes DEF Letter
<1>2. mailbox' = mailbox \/ mailbox' = mailbox \cup {mail}
  BY DEF SendVerification
<1>3. \/ call'[c] = NoCall
      \/ /\ call'[c] = [call[c] EXCEPT !.step = "retract"] /\ told' = told
  BY DEF SendVerification, End, NextStep, MailInv, MailTyped
<1>4. /\ call' \in [Calls -> OpenRequest \cup {NoCall}]
      /\ \A d \in Calls : d # c => call'[d] = call[d]
      /\ call'[c] # NoCall =>
           /\ call'[c].step = "retract" /\ call'[c].who = u /\ call'[c].token = token
           /\ call'[c].now = call[c].now /\ call'[c].to = call[c].to /\ call'[c].moved = call[c].moved
  <2>1. [call[c] EXCEPT !.step = "retract"] \in OpenRequest
    BY <1>0, MailTypes DEF OpenRequest, RequestSteps
  <2>2. call' \in [Calls -> OpenRequest \cup {NoCall}] /\ \A d \in Calls : d # c => call'[d] = call[d]
    BY <1>0, <2>1 DEF SendVerification, End, NextStep, MailInv, MailTyped
  <2>3. call[c] \in OpenRequest
    BY <1>0, MailTypes
  <2> QED BY <1>3, <2>2, <2>3 DEF OpenRequest
<1>5. /\ told' \in [Users -> Tokens \cup {NoToken}]
      /\ \A w \in Users :
           \/ told'[w] = told[w]
           \/ call'[c] = NoCall /\ told'[w] = token /\ account[w].token = token
  <2>1. CASE told' = told
    BY <2>1 DEF MailInv, MailTyped
  <2>2. CASE told' # told
    <3>1. /\ told' = [told EXCEPT ![u] = IF account[u].token = mail.token THEN mail.token ELSE @]
          /\ call' = [call EXCEPT ![c] = NoCall]
      BY <2>2 DEF SendVerification, End
    <3> HIDE DEF u, token, mail
    <3> QED BY <1>0, <1>1, <3>1 DEF MailInv, MailTyped
  <2> QED BY <2>1, <2>2
<1> HIDE DEF u, token, mail
<1>6. /\ \A d \in Calls : call'[d] # NoCall =>
           call[d] # NoCall /\ call'[d].token = call[d].token /\ call'[d].who = call[d].who
             /\ call'[d].now = call[d].now /\ call'[d].to = call[d].to /\ call'[d].moved = call[d].moved
      /\ \A d \in Calls : call'[d] # NoCall /\ d # c => call'[d].token # token
      /\ \A d \in Calls : call'[d] # NoCall => OnItsWay(d)' = OnItsWay(d)
  BY <1>0, <1>4 DEF MailInv, TokensHeld, OnItsWay, u, token
<1>7. \A d \in Calls : OnItsWay(d)' => call'[d] # NoCall /\ Own(d)' = Own(d)
  BY <1>0, <1>6 DEF OnItsWay, Own
<1>8. MailTyped'
  BY <1>0, <1>1, <1>2, <1>4, <1>5 DEF MailInv, MailTyped
<1>9. TokensHeld'
  <2>1. token <= asked /\ \A m \in mailbox : m.token # token
    BY <1>0 DEF MailInv, TokensHeld, At, token
  <2>2. \A d \in Calls, m \in mailbox' : call'[d] # NoCall /\ m.token = call'[d].token => At(d, "retract")'
    BY <1>1, <1>2, <1>4, <1>6, <2>1 DEF MailInv, TokensHeld, At
  <2>3. \A d \in Calls, w \in Users : call'[d] # NoCall => told'[w] # call'[d].token
    BY <1>5, <1>6 DEF MailInv, TokensHeld
  <2>4. \A m \in mailbox' : m.token <= asked
    BY <1>1, <1>2, <2>1 DEF MailInv, TokensHeld
  <2>5. \A w \in Users : told'[w] <= asked /\ account[w].token <= asked
    BY <1>5, <2>1 DEF MailInv, TokensHeld
  <2>6. /\ \A d, f \in Calls : call'[d] # NoCall /\ call'[f] # NoCall /\ d # f => call'[d].token # call'[f].token
        /\ \A d \in Calls : call'[d] # NoCall => call'[d].token <= asked
    BY <1>6 DEF MailInv, TokensHeld
  <2>7. \A d \in Calls, w \in Users :
          call'[d] # NoCall /\ account[w].token = call'[d].token => w = call'[d].who
    BY <1>6 DEF MailInv, TokensHeld
  <2>8. \A d \in Calls, w \in Users :
          call'[d] # NoCall /\ account[w].token = call'[d].token => OnItsWay(d)'
    BY <1>6 DEF MailInv, TokensHeld
  <2> QED BY <1>0, <2>2, <2>3, <2>4, <2>5, <2>6, <2>7, <2>8 DEF TokensHeld
<1>10. PassesHeld'
  <2>1. \A s \in sent, d \in Calls : call'[d] # NoCall /\ s.by = call'[d].token =>
          OnItsWay(d)' \/ (At(d, "post")' /\ s.kind = "reset")
    <3> SUFFICES ASSUME NEW s \in sent, NEW d \in Calls, call'[d] # NoCall, s.by = call'[d].token
                 PROVE  OnItsWay(d)' \/ (At(d, "post")' /\ s.kind = "reset")
      OBVIOUS
    <3>1. CASE d = c
      BY <1>0, <1>6, <3>1
    <3>2. CASE d # c
      BY <1>4, <1>6, <3>2 DEF MailInv, PassesHeld, At
    <3> QED BY <3>1, <3>2
  <2>2. \A d \in Calls : OnItsWay(d)' =>
          [kind |-> "verification", who |-> call'[d].who, at |-> call'[d].now, by |-> call'[d].token] \in sent
    BY <1>6, <1>7 DEF MailInv, PassesHeld
  <2>3. \A d \in Calls : OnItsWay(d)' => call'[d].token \notin freed'
    BY <1>0, <1>6, <1>7 DEF MailInv, PassesHeld
  <2> QED BY <1>0, <2>1, <2>2, <2>3 DEF MailInv, PassesHeld
<1>11. TimesHeld'
  <2>1. /\ \A d \in Calls : call'[d] # NoCall => call'[d].now <= clock
        /\ \A d \in Calls : At(d, "claim")' => call'[d].now = clock
        /\ \A d \in Calls : OnItsWay(d)' => clock <= call'[d].now + MailLife
    BY <1>4, <1>6, <1>7 DEF MailInv, TimesHeld, At
  <2>2. \A d \in Calls : OnItsWay(d)' /\ Own(d)' => OnItsWay(d) /\ Own(d)
    BY <1>6, <1>7
  <2> QED BY <1>0, <1>6, <1>7, <2>1, <2>2 DEF MailInv, TimesHeld
<1>12. AddressesHeld'
  <2>1. \A d \in Calls : OnItsWay(d)' /\ Own(d)' => OnItsWay(d) /\ Own(d)
    BY <1>6, <1>7
  <2>2. /\ \A d \in Calls : At(d, "post")' => At(d, "post") /\ call'[d] = call[d]
        /\ \A d \in Calls : At(d, "claim")' => At(d, "claim") /\ call'[d] = call[d]
    BY <1>4 DEF At
  <2>3. \A m \in mailbox', w \in Users : account[w].token = m.token => m.to = account[w].email \/ m.moved
    <3>1. \A w \in Users : account[w].token = token =>
            call[c].to = account[w].email \/ call[c].moved
      BY <1>0 DEF MailInv, TokensHeld, AddressesHeld, Own, u, token
    <3> QED BY <1>1, <1>2, <3>1 DEF MailInv, AddressesHeld
  <2> QED BY <1>0, <1>6, <1>7, <2>1, <2>2, <2>3 DEF MailInv, AddressesHeld, ProvedFor
<1>13. MailsAreRare' /\ ToldLinkWorks' /\ ResetOnlyToProvedUnlessMoved'
  BY <1>0, <1>5 DEF MailInv, MailsAreRare, ToldLinkWorks, ResetOnlyToProvedUnlessMoved
<1> QED BY <1>8, <1>9, <1>10, <1>11, <1>12, <1>13 DEF MailInv

(* A failed mail takes its token back, and with it the time: its own, and  *)
(* that of the resets that were let through at the same time.              *)
LEMMA TakeBackKeeps ==
  ASSUME MailInv, NEW c \in Calls, TakeBack(c)
  PROVE  MailInv'
<1> DEFINE u == call[c].who
           token == call[c].token
<1>0. /\ call[c] # NoCall /\ OnItsWay(c) /\ ~At(c, "post") /\ u \in Users /\ token # NoToken
      /\ UNCHANGED <<clock, asked, mailbox, sent, told, proved, resets>> /\ End(c)
  BY MailTypes DEF TakeBack, At, OnItsWay
<1>1. CASE UNCHANGED <<account, freed>>
  BY <1>0, <1>1, RequestEnds DEF MailInv, ResetOnlyToProvedUnlessMoved
<1>2. CASE ~UNCHANGED <<account, freed>>
  <2>1. /\ OnItsWay(c) /\ Own(c)
        /\ account' = [account EXCEPT ![u].token = NoToken, ![u].expires = Never, ![u].sentAt = Never]
        /\ sent' = sent /\ freed' = freed \cup {token} \cup LastReset(u)
    BY <1>0, <1>2 DEF TakeBack, OwnToken, Own
  <2>2. /\ account' \in [Users -> Profile]
        /\ \A w \in Users : w # u => account'[w] = account[w]
        /\ account'[u].token = NoToken /\ account'[u].sentAt = Never
        /\ \A w \in Users : /\ account'[w].live = account[w].live /\ account'[w].email = account[w].email
                            /\ account'[w].verified = account[w].verified
    <3>1. account \in [Users -> Profile]
      BY DEF MailInv, MailTyped
    <3> HIDE DEF u, token
    <3>2. Never \in Int /\ NoToken \in Int
      BY DEF Never, NoToken
    <3> QED BY <1>0, <2>1, <3>1, <3>2 DEF Profile
  <2>3. /\ call' \in [Calls -> OpenRequest \cup {NoCall}]
        /\ \A d \in Calls : call'[d] = IF d = c THEN NoCall ELSE call[d]
    BY <1>0 DEF End, MailInv, MailTyped
  <2> HIDE DEF u, token
  <2>4. /\ \A d \in Calls : call'[d] # NoCall => d # c /\ call'[d] = call[d] /\ call[d].token # token
        /\ \A d \in Calls : call'[d] # NoCall => OnItsWay(d)' = OnItsWay(d)
        /\ \A d \in Calls : OnItsWay(d)' => call'[d] # NoCall
    BY <1>0, <2>3 DEF MailInv, TokensHeld, OnItsWay, token
  <2>5. \A d \in Calls : OnItsWay(d)' /\ Own(d)' => OnItsWay(d) /\ Own(d) /\ call[d].who # u
    BY <1>0, <2>2, <2>4, MailTypes DEF Own, NoToken
  <2>6. sent' = sent /\ freed \subseteq freed' /\ Mails' \subseteq Mails
    BY <2>1 DEF Mails
  <2>7. \A w \in Users : account[w].token = token => w = u
    BY <1>0 DEF MailInv, TokensHeld, u, token
  <2>8. MailTyped'
    BY <1>0, <2>1, <2>2, <2>3 DEF MailInv, MailTyped
  <2>9. TokensHeld'
    <3>1. \A d \in Calls, w \in Users : call'[d] # NoCall /\ account'[w].token = call'[d].token =>
            w # u /\ account[w].token = call[d].token
      BY <2>2, <2>4, MailTypes DEF NoToken
    <3>2. \A w \in Users : account'[w].token <= asked
      BY <2>2, MailTypes DEF MailInv, TokensHeld, NoToken
    <3>3. \A d \in Calls, m \in mailbox : call'[d] # NoCall /\ m.token = call'[d].token => At(d, "retract")'
      BY <2>4 DEF MailInv, TokensHeld, At
    <3>4. \A d \in Calls, w \in Users :
            call'[d] # NoCall /\ account'[w].token = call'[d].token => w = call'[d].who /\ OnItsWay(d)'
      BY <2>4, <3>1 DEF MailInv, TokensHeld
    <3> QED BY <1>0, <2>4, <3>2, <3>3, <3>4 DEF MailInv, TokensHeld
  <2>10. PassesHeld'
    <3>1. \A s \in sent', d \in Calls : call'[d] # NoCall /\ s.by = call'[d].token =>
            OnItsWay(d)' \/ (At(d, "post")' /\ s.kind = "reset")
      BY <2>4, <2>6 DEF MailInv, PassesHeld, At
    <3>2. \A d \in Calls : OnItsWay(d)' =>
            [kind |-> "verification", who |-> call'[d].who, at |-> call'[d].now, by |-> call'[d].token] \in sent'
      <4> SUFFICES ASSUME NEW d \in Calls, OnItsWay(d)'
                   PROVE  [kind |-> "verification", who |-> call'[d].who, at |-> call'[d].now, by |-> call'[d].token] \in sent'
        OBVIOUS
      <4>1. OnItsWay(d) /\ call'[d] = call[d]
        BY <2>4
      <4> QED BY <2>6, <4>1 DEF MailInv, PassesHeld
    <3>3. \A b \in freed' : \E s \in sent' : s.by = b
      <4>1. \E s \in sent : s.by = token
        BY <1>0 DEF MailInv, PassesHeld, token
      <4> QED BY <2>1, <4>1 DEF LastReset, MailInv, PassesHeld
    <3>4. \A d \in Calls : OnItsWay(d)' => call'[d].token \notin freed'
      <4> SUFFICES ASSUME NEW d \in Calls, OnItsWay(d)', call[d].token \in freed'
                   PROVE  FALSE
        BY <2>4
      <4> DEFINE e == [kind |-> "verification", who |-> call[d].who, at |-> call[d].now, by |-> call[d].token]
      <4>1. OnItsWay(d) /\ call[d].token # token /\ call[d].token \notin freed
        BY <2>4 DEF MailInv, PassesHeld
      <4>2. e \in sent /\ e.by = call[d].token /\ e.kind = "verification"
        BY <4>1 DEF MailInv, PassesHeld
      <4>3. \A s \in sent : s.by = call[d].token => s = e
        BY <4>2 DEF MailInv, PassesHeld
      <4> HIDE DEF e
      <4> QED BY <2>1, <4>1, <4>2, <4>3 DEF LastReset
    <3> QED BY <1>0, <2>6, <3>1, <3>2, <3>3, <3>4 DEF MailInv, PassesHeld
  <2>11. call[c].now <= clock /\ call[c].now \in Nat /\ clock \in Nat /\ Cooldown \in Nat
    BY <1>0, MailTypes DEF MailInv, TimesHeld
  <2>12. TimesHeld'
    <3>1. /\ \A d \in Calls : call'[d] # NoCall => call'[d].now <= clock
          /\ \A d \in Calls : At(d, "claim")' => call'[d].now = clock
          /\ \A d \in Calls : OnItsWay(d)' => clock <= call'[d].now + MailLife
      BY <2>4 DEF MailInv, TimesHeld, At
    <3>2. \A s \in Mails' : account'[s.who].live =>
            s.at = account'[s.who].sentAt \/ s.at < clock - Cooldown
      <4> SUFFICES ASSUME NEW s \in Mails', account[s.who].live, s.who = u
                   PROVE  s.at < clock - Cooldown
        BY <2>2, <2>6, MailTypes DEF MailInv, TimesHeld
      <4>1. s \in sent /\ s \in Mails /\ s.by # token /\ s.kind \in {"verification", "reset"} /\ s.at \in Nat
        BY <2>1, <2>6, MailTypes DEF Mails, MailInv, MailTyped, Passed
      <4>2. CASE s.kind = "verification"
        <5>1. s.at < call[c].now - Cooldown
          BY <1>0, <2>1, <4>1, <4>2 DEF MailInv, TimesHeld, u, token
        <5> QED BY <2>11, <4>1, <5>1
      <4>3. CASE s.kind = "reset"
        <5>1. s.by \notin LastReset(u)
          BY <2>1, <4>3 DEF Mails
        <5>2. s.at # account[u].sentAt
          BY <4>1, <4>3, <5>1 DEF LastReset
        <5> QED BY <4>1, <5>2 DEF MailInv, TimesHeld
      <4> QED BY <4>1, <4>2, <4>3
    <3>3. \A d \in Calls : OnItsWay(d)' /\ Own(d)' =>
            \A s \in Mails' : s.who = call'[d].who /\ s.kind = "verification" /\ s.by # call'[d].token =>
              s.at < call'[d].now - Cooldown
      BY <2>4, <2>5, <2>6 DEF MailInv, TimesHeld
    <3>4. MailLife <= Cooldown =>
            \A d \in Calls : OnItsWay(d)' /\ Own(d)' => account'[call'[d].who].sentAt = call'[d].now
      BY <2>2, <2>4, <2>5, MailTypes DEF MailInv, TimesHeld
    <3> QED BY <1>0, <2>6, <3>1, <3>2, <3>3, <3>4 DEF MailInv, TimesHeld
  <2>13. AddressesHeld'
    <3>1. \A m \in mailbox, w \in Users : account'[w].token = m.token => m.to = account'[w].email \/ m.moved
      BY <2>2, MailTypes DEF MailInv, AddressesHeld
    <3>2. \A d \in Calls : OnItsWay(d)' /\ Own(d)' =>
            call'[d].to = account'[call'[d].who].email \/ call'[d].moved
      BY <2>2, <2>4, <2>5, MailTypes DEF MailInv, AddressesHeld
    <3>3. \A d \in Calls : At(d, "claim")' /\ account'[call'[d].who].live =>
            call'[d].to = account'[call'[d].who].email \/ call'[d].moved
      BY <2>2, <2>4, MailTypes DEF MailInv, AddressesHeld, At
    <3>4. \A d \in Calls : At(d, "post")' => At(d, "post") /\ call'[d] = call[d]
      BY <2>4 DEF At
    <3> QED BY <1>0, <2>2, <3>1, <3>2, <3>3, <3>4 DEF MailInv, AddressesHeld, ProvedFor
  <2>14. MailsAreRare'
    <3>1. /\ \A s \in Mails', t \in sent' : s.who = t.who /\ s.at < t.at => s.at < t.at - Cooldown
          /\ \A s, t \in Mails' : s # t /\ s.who = t.who => s.at # t.at
      BY <2>6 DEF MailInv, MailsAreRare
    <3>2. MailLife <= Cooldown => \A s \in sent' : s.kind = "reset" => s \in Mails'
      <4> SUFFICES ASSUME MailLife <= Cooldown, NEW s \in sent, s.kind = "reset"
                   PROVE  s.by \notin freed'
        BY <2>6 DEF Mails
      <4> DEFINE e == [kind |-> "verification", who |-> u, at |-> call[c].now, by |-> token]
      <4>1. e \in sent /\ e.at = call[c].now /\ e.who = u /\ e.kind = "verification" /\ e.by = token
        BY <1>0 DEF MailInv, PassesHeld, u, token
      <4>2. e \in Mails
        BY <1>0, <4>1 DEF Mails, MailInv, PassesHeld, token
      <4>3. account[u].sentAt = call[c].now
        BY <1>0, <2>1 DEF MailInv, TimesHeld, u
      <4> HIDE DEF e
      <4>4. s \in Mails /\ s.by # token
        BY <4>1 DEF MailInv, MailsAreRare, PassesHeld
      <4>5. ASSUME NEW m \in sent, m.kind = "reset", m.who = u, m.at = account[u].sentAt
            PROVE  FALSE
        BY <4>1, <4>2, <4>3, <4>5 DEF MailInv, MailsAreRare
      <4> QED BY <2>1, <4>4, <4>5 DEF LastReset, Mails
    <3> QED BY <3>1, <3>2 DEF MailsAreRare
  <2>15. ToldLinkWorks' /\ ResetOnlyToProvedUnlessMoved'
    <3>1. told[u] # token
      BY <1>0 DEF MailInv, TokensHeld, token
    <3>2. account[u].token = token
      BY <2>1 DEF Own, u, token
    <3> QED BY <1>0, <2>2, <3>1, <3>2 DEF MailInv, ToldLinkWorks, ResetOnlyToProvedUnlessMoved
  <2> QED BY <2>8, <2>9, <2>10, <2>12, <2>13, <2>14, <2>15 DEF MailInv
<1> QED BY <1>1, <1>2

-----------------------------------------------------------------------------
(* A link is opened.                                                       *)
LEMMA ConfirmKeeps ==
  ASSUME MailInv, NEW mail \in mailbox, Confirm(mail)
  PROVE  MailInv'
<1>0. PICK u \in Users :
        /\ account[u].live /\ account[u].token = mail.token /\ account[u].email # NoAddress
        /\ Free(u)
        /\ account' = [account EXCEPT ![u].verified = TRUE, ![u].token = NoToken, ![u].expires = Never]
        /\ proved' = proved \cup {[who |-> u, email |-> account[u].email, by |-> mail.to, moved |-> mail.moved]}
        /\ told' = [told EXCEPT ![u] = NoToken]
  BY DEF Confirm
<1> DEFINE p == [who |-> u, email |-> account[u].email, by |-> mail.to, moved |-> mail.moved]
<1>1. /\ UNCHANGED <<clock, call, asked, mailbox, sent, freed, resets>>
      /\ proved' = proved \cup {p} /\ Mails' = Mails
      /\ p.who = u /\ p.email = account[u].email /\ p.by = mail.to /\ p.moved = mail.moved
  BY <1>0 DEF Confirm, Mails
<1>2. /\ account' \in [Users -> Profile]
      /\ \A w \in Users : w # u => account'[w] = account[w]
      /\ account'[u].token = NoToken /\ account'[u].verified
      /\ \A w \in Users : /\ account'[w].live = account[w].live /\ account'[w].email = account[w].email
                          /\ account'[w].sentAt = account[w].sentAt
  <2>1. account \in [Users -> Profile]
    BY DEF MailInv, MailTyped
  <2>2. Never \in Int /\ NoToken \in Int
    BY DEF Never, NoToken
  <2> QED BY <1>0, <2>1, <2>2 DEF Profile
<1>3. /\ told' \in [Users -> Tokens \cup {NoToken}]
      /\ \A w \in Users : told'[w] = IF w = u THEN NoToken ELSE told[w]
  BY <1>0 DEF MailInv, MailTyped
<1> HIDE DEF p
<1>4. \A d \in Calls : call'[d] # NoCall => OnItsWay(d)' = OnItsWay(d)
  BY <1>1 DEF OnItsWay
<1>5. \A d \in Calls : OnItsWay(d)' /\ Own(d)' =>
        call[d] # NoCall /\ OnItsWay(d) /\ Own(d) /\ call[d].who # u
  BY <1>1, <1>2, MailTypes DEF Own, OnItsWay
<1>6. MailTyped'
  BY <1>1, <1>2, <1>3 DEF MailInv, MailTyped
<1>7. TokensHeld'
  <2>1. \A d \in Calls, w \in Users :
          call[d] # NoCall /\ account'[w].token = call[d].token => account[w].token = call[d].token
    BY <1>2, MailTypes
  <2>2. \A d \in Calls, w \in Users : call[d] # NoCall => told'[w] # call[d].token
    BY <1>3, MailTypes DEF MailInv, TokensHeld
  <2>3. \A w \in Users : account'[w].token <= asked /\ told'[w] <= asked
    BY <1>2, <1>3, MailTypes DEF MailInv, TokensHeld, NoToken
  <2>4. \A d \in Calls, m \in mailbox : call[d] # NoCall /\ m.token = call[d].token => At(d, "retract")'
    BY <1>1 DEF MailInv, TokensHeld, At
  <2>5. \A d \in Calls, w \in Users :
          call'[d] # NoCall /\ account'[w].token = call'[d].token => w = call'[d].who /\ OnItsWay(d)'
    BY <1>1, <1>4, <2>1 DEF MailInv, TokensHeld
  <2> QED BY <1>1, <2>2, <2>3, <2>4, <2>5 DEF MailInv, TokensHeld
<1>8. PassesHeld'
  BY <1>1 DEF MailInv, PassesHeld, OnItsWay, At
<1>9. TimesHeld'
  <2>1. MailLife <= Cooldown =>
          \A d \in Calls : OnItsWay(d)' /\ Own(d)' => account'[call'[d].who].sentAt = call'[d].now
    BY <1>1, <1>2, <1>5, MailTypes DEF MailInv, TimesHeld
  <2>2. \A d \in Calls : At(d, "claim")' => call'[d].now = clock
    BY <1>1 DEF MailInv, TimesHeld, At
  <2>3. \A d \in Calls : OnItsWay(d)' => clock <= call'[d].now + MailLife
    BY <1>1, <1>4 DEF MailInv, TimesHeld, OnItsWay
  <2>4. \A s \in Mails : account'[s.who].live =>
          s.at = account'[s.who].sentAt \/ s.at < clock - Cooldown
    BY <1>2, MailTypes DEF MailInv, TimesHeld
  <2>5. \A d \in Calls : OnItsWay(d)' /\ Own(d)' =>
          \A s \in Mails : s.who = call[d].who /\ s.kind = "verification" /\ s.by # call[d].token =>
            s.at < call[d].now - Cooldown
    BY <1>5 DEF MailInv, TimesHeld
  <2> QED BY <1>1, <2>1, <2>2, <2>3, <2>4, <2>5 DEF MailInv, TimesHeld
<1>10. AddressesHeld'
  <2>1. \A w, x \in Users :
          account'[w].live /\ account'[w].verified /\ account'[x].live /\ account'[x].verified
            /\ account'[w].email = account'[x].email => w = x
    <3>1. \A w \in Users : account[w].live /\ account[w].verified /\ account[w].email = account[u].email => w = u
      BY <1>0 DEF Free, verifiedOwnerOf
    <3> QED BY <1>2, <3>1 DEF MailInv, AddressesHeld
  <2>2. \A w \in Users : account'[w].live /\ account'[w].verified =>
          \E q \in proved' : q.who = w /\ q.email = account'[w].email /\ (q.by = account'[w].email \/ q.moved)
    <3>1. mail.to = account[u].email \/ mail.moved
      BY <1>0 DEF MailInv, AddressesHeld
    <3>2. p \in proved' /\ proved \subseteq proved'
      BY <1>1
    <3>3. \A w \in Users : w # u /\ account[w].live /\ account[w].verified =>
            \E q \in proved : q.who = w /\ q.email = account[w].email /\ (q.by = account[w].email \/ q.moved)
      BY DEF MailInv, AddressesHeld, ProvedFor
    <3> QED BY <1>1, <1>2, <3>1, <3>2, <3>3
  <2>3. \A d \in Calls : At(d, "post")' =>
          \E q \in proved' : q.who = call'[d].who /\ q.email = call'[d].to /\ (q.by = call'[d].to \/ q.moved)
    <3>1. \A d \in Calls : At(d, "post") =>
            \E q \in proved : q.who = call[d].who /\ q.email = call[d].to /\ (q.by = call[d].to \/ q.moved)
      BY DEF MailInv, AddressesHeld, ProvedFor
    <3> QED BY <1>1, <3>1 DEF At
  <2>4. \A d \in Calls : At(d, "claim")' /\ account'[call'[d].who].live =>
          call'[d].to = account'[call'[d].who].email \/ call'[d].moved
    BY <1>1, <1>2, MailTypes DEF MailInv, AddressesHeld, At
  <2>5. \A d \in Calls : OnItsWay(d)' /\ Own(d)' =>
          call'[d].to = account'[call'[d].who].email \/ call'[d].moved
    BY <1>1, <1>2, <1>5, MailTypes DEF MailInv, AddressesHeld
  <2>6. \A m \in mailbox, w \in Users : account'[w].token = m.token => m.to = account'[w].email \/ m.moved
    BY <1>2, MailTypes DEF MailInv, AddressesHeld
  <2> QED BY <1>1, <2>1, <2>2, <2>3, <2>4, <2>5, <2>6 DEF AddressesHeld, ProvedFor
<1>11. MailsAreRare' /\ ToldLinkWorks'
  BY <1>1, <1>2, <1>3 DEF MailInv, MailsAreRare, ToldLinkWorks
<1>12. ResetOnlyToProvedUnlessMoved'
  <2>1. proved \subseteq proved'
    BY <1>1
  <2> QED BY <1>1, <2>1 DEF MailInv, ResetOnlyToProvedUnlessMoved
<1> QED BY <1>6, <1>7, <1>8, <1>9, <1>10, <1>11, <1>12 DEF MailInv

-----------------------------------------------------------------------------
(* The address is changed, or the account deleted: its token is gone with  *)
(* it, and no request to confirm takes the new address for the old one.    *)
LEMMA ProfileChanges ==
  ASSUME MailInv, NEW u \in Users, NEW row \in Profile,
         account' = [account EXCEPT ![u] = row],
         row = account[u] \/ (row.token = NoToken /\ (row.live => ~row.verified)),
         row.live => account[u].live /\ row.sentAt = account[u].sentAt,
         call' \in [Calls -> OpenRequest \cup {NoCall}],
         \A d \in Calls : call'[d] # NoCall =>
           /\ call[d] # NoCall /\ call'[d].token = call[d].token /\ call'[d].who = call[d].who
           /\ call'[d].to = call[d].to /\ call'[d].now = call[d].now
           /\ call'[d].step = call[d].step \/ (call[d].step = "change" /\ call'[d].step = "quietly")
           /\ call[d].moved => call'[d].moved
           /\ call'[d].step = "claim" /\ call[d].who = u /\ row.live /\ row.email # account[u].email =>
                call'[d].moved,
         \A w \in Users : told'[w] = told[w] \/ told'[w] = NoToken,
         row # account[u] => told'[u] = NoToken,
         told' \in [Users -> Tokens \cup {NoToken}],
         asked' \in {asked, asked + 1}, asked' \in 0..MaxRequests,
         UNCHANGED <<clock, mailbox, sent, freed, proved, resets>>
  PROVE  MailInv'
<1>1. /\ account' \in [Users -> Profile]
      /\ \A w \in Users : account'[w] = IF w = u THEN row ELSE account[w]
      /\ \A w \in Users : account'[w].token \in {account[w].token, NoToken}
      /\ \A w \in Users : account'[w].token # NoToken => account'[w] = account[w]
      /\ \A w \in Users : account'[w].live =>
           account[w].live /\ account'[w].sentAt = account[w].sentAt
             /\ (account'[w].verified => account'[w] = account[w])
  BY DEF MailInv, MailTyped
<1>2. Mails' = Mails
  BY DEF Mails
<1>3. \A d \in Calls : call'[d] # NoCall => OnItsWay(d)' = OnItsWay(d)
  BY DEF OnItsWay
<1>4. \A d \in Calls : OnItsWay(d)' /\ Own(d)' =>
        /\ call'[d] # NoCall /\ OnItsWay(d) /\ Own(d) /\ call[d].who \in Users
        /\ account'[call[d].who] = account[call[d].who]
  BY <1>1, <1>3, MailTypes DEF Own, OnItsWay
<1>5. \A d \in Calls : At(d, "claim")' \/ At(d, "post")' \/ At(d, "retract")' =>
        call'[d] # NoCall /\ call'[d].step = call[d].step
  BY DEF At
<1>6. MailTyped'
  BY <1>1 DEF MailInv, MailTyped
<1>7. TokensHeld'
  <2>1. \A d \in Calls, w \in Users : call'[d] # NoCall /\ account'[w].token = call'[d].token =>
          account[w].token = call[d].token
    BY <1>1, MailTypes
  <2>2. \A d \in Calls, w \in Users : call'[d] # NoCall /\ account'[w].token = call'[d].token =>
          w = call'[d].who /\ OnItsWay(d)'
    BY <1>3, <2>1 DEF MailInv, TokensHeld
  <2>3. \A d \in Calls, w \in Users : call'[d] # NoCall => told'[w] # call'[d].token
    BY MailTypes DEF MailInv, TokensHeld
  <2>4. asked <= asked' /\ asked \in Nat /\ asked' \in Nat
    BY MailTypes
  <2>5. \A w \in Users : account'[w].token <= asked' /\ told'[w] <= asked'
    BY <1>1, <2>4, MailTypes DEF MailInv, TokensHeld, NoToken
  <2>6. \A d \in Calls, m \in mailbox : call'[d] # NoCall /\ m.token = call'[d].token => At(d, "retract")'
    BY DEF MailInv, TokensHeld, At
  <2>7. \A d \in Calls : call'[d] # NoCall => call'[d].token <= asked'
    BY <2>4, MailTypes DEF MailInv, TokensHeld
  <2>8. \A m \in mailbox : m.token <= asked'
    BY <2>4, MailTypes DEF MailInv, TokensHeld
  <2>9. \A d, f \in Calls : call'[d] # NoCall /\ call'[f] # NoCall /\ d # f => call'[d].token # call'[f].token
    BY DEF MailInv, TokensHeld
  <2> QED BY <2>2, <2>3, <2>5, <2>6, <2>7, <2>8, <2>9 DEF TokensHeld
<1>8. PassesHeld'
  <2>1. asked <= asked' /\ asked \in Nat /\ asked' \in Nat
    BY MailTypes
  <2>2. \A s \in sent : s.by <= asked'
    BY <2>1, MailTypes DEF MailInv, PassesHeld
  <2>3. \A s \in sent, d \in Calls : call'[d] # NoCall /\ s.by = call'[d].token =>
          OnItsWay(d)' \/ (At(d, "post")' /\ s.kind = "reset")
    BY <1>3 DEF MailInv, PassesHeld, At
  <2>4. \A d \in Calls : OnItsWay(d)' =>
          [kind |-> "verification", who |-> call'[d].who, at |-> call'[d].now, by |-> call'[d].token] \in sent
    <3> SUFFICES ASSUME NEW d \in Calls, OnItsWay(d)'
                 PROVE  [kind |-> "verification", who |-> call'[d].who, at |-> call'[d].now, by |-> call'[d].token] \in sent
      OBVIOUS
    <3>1. call'[d] # NoCall /\ OnItsWay(d)
      BY <1>3 DEF OnItsWay
    <3> QED BY <3>1 DEF MailInv, PassesHeld
  <2>5. \A d \in Calls : OnItsWay(d)' => call'[d].token \notin freed'
    <3> SUFFICES ASSUME NEW d \in Calls, OnItsWay(d)' PROVE call'[d].token \notin freed
      OBVIOUS
    <3>1. call'[d] # NoCall /\ OnItsWay(d)
      BY <1>3 DEF OnItsWay
    <3> QED BY <3>1 DEF MailInv, PassesHeld
  <2> QED BY <2>2, <2>3, <2>4, <2>5 DEF MailInv, PassesHeld
<1>9. TimesHeld'
  <2>1. /\ \A d \in Calls : call'[d] # NoCall => call'[d].now <= clock
        /\ \A d \in Calls : At(d, "claim")' => call'[d].now = clock
    BY DEF MailInv, TimesHeld, At
  <2>2. \A d \in Calls : OnItsWay(d)' => clock <= call'[d].now + MailLife
    BY <1>3 DEF MailInv, TimesHeld, OnItsWay
  <2>3. \A s \in Mails : account'[s.who].live =>
          s.at = account'[s.who].sentAt \/ s.at < clock - Cooldown
    BY <1>1, MailTypes DEF MailInv, TimesHeld
  <2>4. \A d \in Calls : OnItsWay(d)' /\ Own(d)' =>
          \A s \in Mails : s.who = call'[d].who /\ s.kind = "verification" /\ s.by # call'[d].token =>
            s.at < call'[d].now - Cooldown
    BY <1>4 DEF MailInv, TimesHeld
  <2>5. MailLife <= Cooldown =>
          \A d \in Calls : OnItsWay(d)' /\ Own(d)' => account'[call'[d].who].sentAt = call'[d].now
    BY <1>4 DEF MailInv, TimesHeld
  <2> QED BY <1>2, <2>1, <2>2, <2>3, <2>4, <2>5 DEF MailInv, TimesHeld
<1>10. AddressesHeld'
  <2>1. /\ \A w, x \in Users :
             account'[w].live /\ account'[w].verified /\ account'[x].live /\ account'[x].verified
               /\ account'[w].email = account'[x].email => w = x
        /\ \A w \in Users : account'[w].live /\ account'[w].verified =>
             \E q \in proved : q.who = w /\ q.email = account'[w].email /\ (q.by = account'[w].email \/ q.moved)
    BY <1>1 DEF MailInv, AddressesHeld, ProvedFor
  <2>2. \A d \in Calls : At(d, "post")' =>
          \E q \in proved : q.who = call'[d].who /\ q.email = call'[d].to /\ (q.by = call'[d].to \/ q.moved)
    BY <1>5 DEF MailInv, AddressesHeld, ProvedFor, At
  <2>3. \A d \in Calls : At(d, "claim")' /\ account'[call'[d].who].live =>
          call'[d].to = account'[call'[d].who].email \/ call'[d].moved
    <3> SUFFICES ASSUME NEW d \in Calls, At(d, "claim")', account'[call'[d].who].live
                 PROVE  call'[d].to = account'[call'[d].who].email \/ call'[d].moved
      OBVIOUS
    <3>1. /\ call'[d] # NoCall /\ At(d, "claim") /\ call[d].who \in Users
          /\ account'[call[d].who].live /\ account[call[d].who].live
      BY <1>1, <1>5, MailTypes DEF At
    <3>2. call[d].to = account[call[d].who].email \/ call[d].moved
      BY <3>1 DEF MailInv, AddressesHeld
    <3> QED BY <1>1, <3>1, <3>2 DEF At
  <2>4. \A d \in Calls : OnItsWay(d)' /\ Own(d)' =>
          call'[d].to = account'[call'[d].who].email \/ call'[d].moved
    BY <1>4 DEF MailInv, AddressesHeld
  <2>5. \A m \in mailbox, w \in Users : account'[w].token = m.token => m.to = account'[w].email \/ m.moved
    BY <1>1, MailTypes DEF MailInv, AddressesHeld
  <2> QED BY <2>1, <2>2, <2>3, <2>4, <2>5 DEF AddressesHeld, ProvedFor
<1>11. MailsAreRare' /\ ResetOnlyToProvedUnlessMoved'
  BY <1>2 DEF MailInv, MailsAreRare, ResetOnlyToProvedUnlessMoved
<1>12. ToldLinkWorks'
  BY <1>1 DEF MailInv, ToldLinkWorks
<1> QED BY <1>6, <1>7, <1>8, <1>9, <1>10, <1>11, <1>12 DEF MailInv

LEMMA WriteProfileKeeps ==
  ASSUME MailInv, NEW c \in Calls, WriteProfile(c)
  PROVE  MailInv'
<1> DEFINE u == call[c].who
           address == call[c].to
           row == IF account[u].live THEN WithAddress(account[u], address) ELSE account[u]
<1>1. /\ call[c] # NoCall /\ call[c].step = "change" /\ u \in Users
      /\ address \in Addresses \cup {NoAddress} /\ account[u] \in Profile
      /\ asked \in 0..MaxRequests /\ account \in [Users -> Profile]
      /\ told \in [Users -> Tokens \cup {NoToken}]
  BY MailTypes DEF WriteProfile, At, MailInv, MailTyped
<1>2. /\ account' = IF account[u].live THEN [account EXCEPT ![u] = WithAddress(@, address)] ELSE account
      /\ call' = [d \in Calls |->
           IF d = c THEN IF account[u].live /\ call[c].moved /\ address # NoAddress
                           THEN [call[c] EXCEPT !.step = "quietly"] ELSE NoCall
           ELSE IF At(d, "claim") /\ call[d].who = u /\ account[u].email # address
             THEN [call[d] EXCEPT !.moved = TRUE]
           ELSE call[d]]
      /\ told' = IF account[u].email = address THEN told ELSE [told EXCEPT ![u] = NoToken]
      /\ UNCHANGED <<clock, asked, mailbox, sent, freed, proved, resets>>
  BY DEF WriteProfile
<1> HIDE DEF u, address
<1>3. /\ row \in Profile
      /\ row = account[u] \/ (row.token = NoToken /\ ~row.verified)
      /\ row.live = account[u].live /\ row.sentAt = account[u].sentAt
      /\ row.email # account[u].email => row.email = address
      /\ account[u].email = address => row = account[u]
  <2>1. Never \in Int /\ NoToken \in Tokens \cup {NoToken}
    BY DEF Never
  <2> QED BY <1>1, <2>1 DEF WithAddress, Profile
<1>4. account' = [account EXCEPT ![u] = row]
  BY <1>1, <1>2
<1> HIDE DEF row
<1>5. /\ \A d \in Calls : call'[d] # NoCall =>
           /\ call[d] # NoCall /\ call'[d] \in OpenRequest
           /\ call'[d].token = call[d].token /\ call'[d].who = call[d].who
           /\ call'[d].to = call[d].to /\ call'[d].now = call[d].now
           /\ call'[d].step = call[d].step \/ (call[d].step = "change" /\ call'[d].step = "quietly")
           /\ call[d].moved => call'[d].moved
           /\ call'[d].step = "claim" /\ call[d].who = u /\ account[u].email # address => call'[d].moved
  <2> SUFFICES ASSUME NEW d \in Calls, call'[d] # NoCall
               PROVE  /\ call[d] # NoCall /\ call'[d] \in OpenRequest
                      /\ call'[d].token = call[d].token /\ call'[d].who = call[d].who
                      /\ call'[d].to = call[d].to /\ call'[d].now = call[d].now
                      /\ call'[d].step = call[d].step \/ (call[d].step = "change" /\ call'[d].step = "quietly")
                      /\ call[d].moved => call'[d].moved
                      /\ call'[d].step = "claim" /\ call[d].who = u /\ account[u].email # address => call'[d].moved
    OBVIOUS
  <2>1. CASE d = c
    <3>1. call'[d] = [call[c] EXCEPT !.step = "quietly"] /\ call[c] \in OpenRequest
      BY <1>1, <1>2, <2>1, MailTypes
    <3> QED BY <1>1, <2>1, <3>1 DEF OpenRequest, RequestSteps
  <2>2. CASE d # c
    <3>1. call[d] # NoCall /\ call[d] \in OpenRequest
      BY <1>2, <2>2, MailTypes DEF At
    <3>2. CASE At(d, "claim") /\ call[d].who = u /\ account[u].email # address
      BY <1>2, <2>2, <3>1, <3>2 DEF OpenRequest
    <3>3. CASE ~(At(d, "claim") /\ call[d].who = u /\ account[u].email # address)
      BY <1>2, <2>2, <3>1, <3>3 DEF At
    <3> QED BY <3>2, <3>3
  <2> QED BY <2>1, <2>2
<1>6. call' \in [Calls -> OpenRequest \cup {NoCall}]
  <2>1. DOMAIN call' = Calls /\ call' = [d \in Calls |-> call'[d]]
    BY <1>2
  <2> QED BY <1>5, <2>1
<1>7. /\ told' \in [Users -> Tokens \cup {NoToken}]
      /\ \A w \in Users : told'[w] = told[w] \/ told'[w] = NoToken
      /\ row # account[u] => told'[u] = NoToken
  BY <1>1, <1>2, <1>3
<1>8. /\ asked' \in {asked, asked + 1} /\ asked' \in 0..MaxRequests
      /\ UNCHANGED <<clock, mailbox, sent, freed, proved, resets>>
  BY <1>1, <1>2
<1>9. \A d \in Calls : call'[d] # NoCall =>
        /\ call[d] # NoCall /\ call'[d].token = call[d].token /\ call'[d].who = call[d].who
        /\ call'[d].to = call[d].to /\ call'[d].now = call[d].now
        /\ call'[d].step = call[d].step \/ (call[d].step = "change" /\ call'[d].step = "quietly")
        /\ call[d].moved => call'[d].moved
        /\ call'[d].step = "claim" /\ call[d].who = u /\ row.live /\ row.email # account[u].email =>
             call'[d].moved
  BY <1>3, <1>5
<1>10. /\ row = account[u] \/ (row.token = NoToken /\ (row.live => ~row.verified))
       /\ row.live => account[u].live /\ row.sentAt = account[u].sentAt
       /\ u \in Users /\ row \in Profile
  BY <1>1, <1>3
<1> QED
  BY <1>4, <1>6, <1>7, <1>8, <1>9, <1>10, ProfileChanges

LEMMA DropProfileKeeps ==
  ASSUME MailInv, NEW u \in Users, DropProfile(u)
  PROVE  MailInv'
<1> DEFINE row == [email |-> NoAddress, verified |-> FALSE, token |-> NoToken, expires |-> Never,
                   sentAt |-> Never, live |-> FALSE]
<1>1. row \in Profile /\ row.token = NoToken /\ ~row.live
  BY DEF Profile, Never
<1>2. account' = [account EXCEPT ![u] = row] /\ asked' = asked + 1 /\ asked < MaxRequests
      /\ told' = [told EXCEPT ![u] = NoToken] /\ UNCHANGED <<clock, call, mailbox, sent, freed, proved, resets>>
  BY DEF DropProfile
<1> HIDE DEF row
<1>3. /\ asked' \in 0..MaxRequests
      /\ call' \in [Calls -> OpenRequest \cup {NoCall}]
      /\ told' \in [Users -> Tokens \cup {NoToken}]
      /\ \A w \in Users : told'[w] = IF w = u THEN NoToken ELSE told[w]
  BY <1>2, RecoveryMailAssumption DEF MailInv, MailTyped
<1> QED BY <1>1, <1>2, <1>3, ProfileChanges

(* After the change: the request goes on as one to confirm the address.    *)
LEMMA VerifyQuietlyKeeps ==
  ASSUME MailInv, NEW c \in Calls, VerifyQuietly(c)
  PROVE  MailInv'
<1> DEFINE u == call[c].who
           r == Request("claim", u, account[u].email, call[c].token, FALSE)
<1>1. /\ call[c] # NoCall /\ call[c].step = "quietly" /\ u \in Users /\ ~OnItsWay(c) /\ ~At(c, "retract")
      /\ UNCHANGED <<clock, account, asked, mailbox, sent, freed, told, proved, resets>> /\ Mails' = Mails
  BY MailTypes DEF VerifyQuietly, At, OnItsWay, ghosts, Mails
<1>2. CASE End(c)
  BY <1>1, <1>2, RequestEnds DEF MailInv, ResetOnlyToProvedUnlessMoved
<1>3. CASE ~End(c)
  <2>1. call' = [call EXCEPT ![c] = r]
    BY <1>3 DEF VerifyQuietly
  <2>2. /\ r \in OpenRequest /\ r.step = "claim" /\ r.who = u /\ r.token = call[c].token
        /\ r.now = clock /\ r.to = account[u].email
    <3>1. call[c].token \in Tokens /\ account[u].email \in Addresses \cup {NoAddress} /\ clock \in Nat
      BY <1>1, MailTypes DEF OpenRequest, Profile
    <3> QED BY <1>1, <3>1 DEF Request, OpenRequest, RequestSteps
  <2> HIDE DEF r
  <2>3. /\ call' \in [Calls -> OpenRequest \cup {NoCall}]
        /\ \A d \in Calls : call'[d] = IF d = c THEN r ELSE call[d]
    BY <2>1, <2>2 DEF MailInv, MailTyped
  <2>4. /\ \A d \in Calls : call'[d] # NoCall =>
             call[d] # NoCall /\ call'[d].token = call[d].token /\ call'[d].who = call[d].who
        /\ \A d \in Calls : OnItsWay(d)' => d # c /\ OnItsWay(d) /\ Own(d)' = Own(d)
        /\ \A d \in Calls : OnItsWay(d) => d # c /\ OnItsWay(d)'
    BY <1>1, <2>2, <2>3 DEF OnItsWay, Own
  <2>5. MailTyped'
    BY <1>1, <2>3 DEF MailInv, MailTyped
  <2>6. TokensHeld'
    <3>1. \A d \in Calls, m \in mailbox : call'[d] # NoCall /\ m.token = call'[d].token => At(d, "retract")'
      BY <1>1, <2>3, <2>4 DEF MailInv, TokensHeld, At
    <3> QED BY <1>1, <2>4, <3>1 DEF MailInv, TokensHeld
  <2>7. PassesHeld'
    <3>1. \A s \in sent, d \in Calls : call'[d] # NoCall /\ s.by = call'[d].token =>
            OnItsWay(d)' \/ (At(d, "post")' /\ s.kind = "reset")
      BY <1>1, <2>3, <2>4 DEF MailInv, PassesHeld, At
    <3> QED BY <1>1, <2>3, <2>4, <3>1 DEF MailInv, PassesHeld
  <2>8. TimesHeld'
    BY <1>1, <2>2, <2>3, <2>4, MailTypes DEF MailInv, TimesHeld, At
  <2>9. AddressesHeld'
    BY <1>1, <2>2, <2>3, <2>4 DEF MailInv, AddressesHeld, ProvedFor, At
  <2>10. MailsAreRare' /\ ToldLinkWorks' /\ ResetOnlyToProvedUnlessMoved'
    BY <1>1 DEF MailInv, MailsAreRare, ToldLinkWorks, ResetOnlyToProvedUnlessMoved
  <2> QED BY <2>5, <2>6, <2>7, <2>8, <2>9, <2>10 DEF MailInv
<1> QED BY <1>2, <1>3

-----------------------------------------------------------------------------
(* requestPasswordReset.                                                   *)

LEMMA ClaimResetKeeps ==
  ASSUME MailInv, NEW c \in Calls, ClaimReset(c)
  PROVE  MailInv'
<1> DEFINE u == call[c].who
           token == call[c].token
<1>0. /\ call[c] # NoCall /\ At(c, "reset") /\ ~OnItsWay(c) /\ ~At(c, "retract") /\ u \in Users
      /\ UNCHANGED <<clock, asked, mailbox, freed, told, proved, resets>> /\ clock \in Nat
  BY MailTypes DEF ClaimReset, At, OnItsWay
<1>1. CASE ~(ResetTo(u) /\ Cool(u, clock))
  <2>1. End(c) /\ UNCHANGED <<clock, account, asked, mailbox, sent, freed, told, proved, resets>>
    BY <1>0, <1>1 DEF ClaimReset
  <2> QED BY <2>1, RequestEnds DEF MailInv, ResetOnlyToProvedUnlessMoved
<1>2. CASE ResetTo(u) /\ Cool(u, clock)
  <2> DEFINE e == [kind |-> "reset", who |-> u, at |-> clock, by |-> token]
  <2>1. /\ account' = [account EXCEPT ![u].sentAt = clock]
        /\ LetThrough("reset", u, clock, token)
        /\ call' = [call EXCEPT ![c].step = "post", ![c].to = account[u].email]
        /\ account[u].live /\ account[u].verified
    BY <1>2 DEF ClaimReset, ResetTo
  <2>2. /\ account' \in [Users -> Profile]
        /\ \A w \in Users : w # u => account'[w] = account[w]
        /\ account'[u].sentAt = clock
        /\ \A w \in Users : /\ account'[w].live = account[w].live /\ account'[w].email = account[w].email
                            /\ account'[w].verified = account[w].verified /\ account'[w].token = account[w].token
    <3>1. account \in [Users -> Profile]
      BY DEF MailInv, MailTyped
    <3> HIDE DEF u
    <3> QED BY <1>0, <2>1, <3>1 DEF Profile
  <2>3. /\ call' \in [Calls -> OpenRequest \cup {NoCall}]
        /\ \A d \in Calls : d # c => call'[d] = call[d]
        /\ call'[c].step = "post" /\ call'[c].who = u /\ call'[c].token = token
        /\ call'[c].now = call[c].now /\ call'[c].to = account[u].email
    <3>1. call[c] \in OpenRequest /\ account[u].email \in Addresses \cup {NoAddress}
      BY <1>0, MailTypes DEF Profile
    <3>2. [call[c] EXCEPT !.step = "post", !.to = account[u].email] \in OpenRequest
      BY <3>1 DEF OpenRequest, RequestSteps
    <3>3. call \in [Calls -> OpenRequest \cup {NoCall}]
      BY DEF MailInv, MailTyped
    <3> QED BY <2>1, <3>1, <3>2, <3>3 DEF OpenRequest
  <2>4. /\ e \in Passed /\ sent' = sent \cup {e} /\ Mails' = Mails \cup {e}
        /\ \A s \in sent : s.by # token
        /\ MailsAreRare'
    BY <1>0, <1>2, <2>1, LetThroughApart
  <2>5. /\ e.kind = "reset" /\ e.who = u /\ e.at = clock /\ e.by = token
        /\ \A s \in Mails : s.who = u => s.at < clock - Cooldown
    BY <1>0, <1>2, <2>1, LetThroughApart
  <2> HIDE DEF u, token, e
  <2>6. /\ \A d \in Calls : call'[d] # NoCall =>
             /\ d # c => call'[d].token # token
             /\ d = c \/ call[d] # NoCall
        /\ \A d \in Calls : OnItsWay(d)' => call'[d] # NoCall /\ d # c /\ OnItsWay(d) /\ call'[d] = call[d]
        /\ \A d \in Calls : OnItsWay(d) => OnItsWay(d)'
        /\ \A d \in Calls : OnItsWay(d)' /\ Own(d)' => Own(d)
    BY <1>0, <2>2, <2>3, MailTypes DEF MailInv, TokensHeld, OnItsWay, Own, token
  <2>7. MailTyped'
    BY <1>0, <2>2, <2>3, <2>4 DEF MailInv, MailTyped
  <2>8. \A d \in Calls : call'[d] # NoCall =>
          call[d] # NoCall /\ call'[d].token = call[d].token /\ call'[d].who = call[d].who /\ call'[d].now = call[d].now
    BY <1>0, <2>3 DEF u, token
  <2>9. TokensHeld'
    <3>1. \A d \in Calls, m \in mailbox : call'[d] # NoCall /\ m.token = call'[d].token => At(d, "retract")'
      BY <1>0, <2>3, <2>8 DEF MailInv, TokensHeld, At
    <3>2. \A d \in Calls, w \in Users : call'[d] # NoCall /\ account'[w].token = call'[d].token =>
            w = call'[d].who /\ OnItsWay(d)'
      BY <2>2, <2>6, <2>8 DEF MailInv, TokensHeld
    <3> QED BY <1>0, <2>2, <2>8, <3>1, <3>2 DEF MailInv, TokensHeld
  <2>10. PassesHeld'
    <3>1. \A s \in sent' : s.by <= asked
      BY <1>0, <2>4, <2>5 DEF MailInv, PassesHeld, TokensHeld, token
    <3>2. \A s, t \in sent' : s.by = t.by => s = t
      BY <2>4, <2>5 DEF MailInv, PassesHeld
    <3>3. \A s \in sent', d \in Calls : call'[d] # NoCall /\ s.by = call'[d].token =>
            OnItsWay(d)' \/ (At(d, "post")' /\ s.kind = "reset")
      <4>1. \A d \in Calls : call'[d] # NoCall /\ call'[d].token = token => At(d, "post")'
        BY <2>3, <2>6 DEF At
      <4>2. \A s \in sent, d \in Calls : call'[d] # NoCall /\ s.by = call'[d].token =>
              OnItsWay(d)' \/ (At(d, "post")' /\ s.kind = "reset")
        BY <2>3, <2>4, <2>6 DEF MailInv, PassesHeld, At
      <4> QED BY <2>4, <2>5, <4>1, <4>2
    <3>4. \A d \in Calls : OnItsWay(d)' =>
            [kind |-> "verification", who |-> call'[d].who, at |-> call'[d].now, by |-> call'[d].token] \in sent'
      BY <2>4, <2>6 DEF MailInv, PassesHeld
    <3>5. \A b \in freed : \E s \in sent' : s.by = b
      BY <2>4 DEF MailInv, PassesHeld
    <3>6. \A d \in Calls : OnItsWay(d)' => call'[d].token \notin freed'
      BY <1>0, <2>6 DEF MailInv, PassesHeld
    <3> QED BY <1>0, <3>1, <3>2, <3>3, <3>4, <3>5, <3>6 DEF PassesHeld
  <2>11. TimesHeld'
    <3>1. /\ \A d \in Calls : call'[d] # NoCall => call'[d].now <= clock
          /\ \A d \in Calls : At(d, "claim")' => call'[d].now = clock
          /\ \A d \in Calls : OnItsWay(d)' => clock <= call'[d].now + MailLife
      BY <1>0, <2>3, <2>6, <2>8 DEF MailInv, TimesHeld, At
    <3>2. /\ \A s \in sent' : s.at <= clock
          /\ \A s \in Mails' : account'[s.who].live =>
               s.at = account'[s.who].sentAt \/ s.at < clock - Cooldown
      BY <1>0, <2>2, <2>4, <2>5, MailTypes DEF MailInv, TimesHeld
    <3>3. \A d \in Calls : OnItsWay(d)' /\ Own(d)' =>
            \A s \in Mails' : s.who = call'[d].who /\ s.kind = "verification" /\ s.by # call'[d].token =>
              s.at < call'[d].now - Cooldown
      BY <2>4, <2>5, <2>6 DEF MailInv, TimesHeld
    <3>4. MailLife <= Cooldown =>
            \A d \in Calls : OnItsWay(d)' /\ Own(d)' => account'[call'[d].who].sentAt = call'[d].now
      <4> SUFFICES ASSUME MailLife <= Cooldown, NEW d \in Calls, OnItsWay(d)', Own(d)'
                   PROVE  call[d].who # u
        BY <2>2, <2>6, MailTypes DEF MailInv, TimesHeld, OnItsWay
      <4>1. /\ OnItsWay(d) /\ account[call[d].who].sentAt = call[d].now
            /\ clock <= call[d].now + MailLife /\ call[d].now \in Nat
        BY <2>6, MailTypes DEF MailInv, TimesHeld, OnItsWay
      <4> QED BY <1>0, <1>2, <4>1, MailTypes DEF Cool, Never
    <3> QED BY <1>0, <3>1, <3>2, <3>3, <3>4 DEF TimesHeld
  <2>12. AddressesHeld'
    <3>1. \A w, x \in Users :
            account'[w].live /\ account'[w].verified /\ account'[x].live /\ account'[x].verified
              /\ account'[w].email = account'[x].email => w = x
      BY <2>2 DEF MailInv, AddressesHeld
    <3>2. \A w \in Users : account'[w].live /\ account'[w].verified =>
            \E p \in proved : p.who = w /\ p.email = account'[w].email /\ (p.by = account'[w].email \/ p.moved)
      BY <2>2 DEF MailInv, AddressesHeld, ProvedFor
    <3>3. \A d \in Calls : At(d, "post")' =>
            \E p \in proved : p.who = call'[d].who /\ p.email = call'[d].to /\ (p.by = call'[d].to \/ p.moved)
      <4>1. \E p \in proved : p.who = u /\ p.email = account[u].email /\ (p.by = account[u].email \/ p.moved)
        BY <1>0, <2>1 DEF MailInv, AddressesHeld, ProvedFor
      <4>2. \A d \in Calls : At(d, "post")' /\ d # c => At(d, "post") /\ call'[d] = call[d]
        BY <2>3 DEF At
      <4> QED BY <2>3, <4>1, <4>2 DEF MailInv, AddressesHeld, ProvedFor
    <3>4. \A d \in Calls : At(d, "claim")' /\ account'[call'[d].who].live =>
            call'[d].to = account'[call'[d].who].email \/ call'[d].moved
      BY <2>2, <2>3, MailTypes DEF MailInv, AddressesHeld, At
    <3>5. \A d \in Calls : OnItsWay(d)' /\ Own(d)' =>
            call'[d].to = account'[call'[d].who].email \/ call'[d].moved
      BY <2>2, <2>6, MailTypes DEF MailInv, AddressesHeld, OnItsWay
    <3>6. \A m \in mailbox, w \in Users : account'[w].token = m.token => m.to = account'[w].email \/ m.moved
      BY <2>2 DEF MailInv, AddressesHeld
    <3> QED BY <1>0, <3>1, <3>2, <3>3, <3>4, <3>5, <3>6 DEF AddressesHeld, ProvedFor
  <2>13. MailsAreRare' /\ ToldLinkWorks' /\ ResetOnlyToProvedUnlessMoved'
    BY <1>0, <2>2, <2>4 DEF MailInv, MailsAreRare, ToldLinkWorks, ResetOnlyToProvedUnlessMoved
  <2> QED BY <2>7, <2>9, <2>10, <2>11, <2>12, <2>13 DEF MailInv
<1> QED BY <1>1, <1>2

LEMMA SendResetKeeps ==
  ASSUME MailInv, NEW c \in Calls, SendReset(c)
  PROVE  MailInv'
<1>1. /\ At(c, "post") /\ End(c) /\ UNCHANGED <<clock, account, asked, mailbox, sent, freed, told, proved>>
      /\ resets' = resets \/ resets' = resets \cup {<<call[c].who, call[c].to>>}
  BY DEF SendReset
<1>2. ResetOnlyToProvedUnlessMoved'
  <2>1. ProvedFor(call[c].who, call[c].to)
    BY <1>1 DEF MailInv, AddressesHeld
  <2> QED BY <1>1, <2>1 DEF MailInv, ResetOnlyToProvedUnlessMoved, ProvedFor
<1> QED BY <1>1, <1>2, RequestEnds DEF MailInv

-----------------------------------------------------------------------------
LEMMA MailInvHolds == RecoveryMailSpec => []MailInv
<1>1. RecoveryMailInit => MailInv
  <2> SUFFICES ASSUME RecoveryMailInit PROVE MailInv
    OBVIOUS
  <2>1. /\ clock = 0 /\ asked = 0 /\ mailbox = {} /\ sent = {} /\ freed = {} /\ proved = {} /\ resets = {}
        /\ \A c \in Calls : call[c] = NoCall
        /\ \A u \in Users : told[u] = NoToken /\ account[u].token = NoToken /\ ~account[u].verified
        /\ Mails = {}
    BY DEF RecoveryMailInit, Mails
  <2>2. MailTyped
    BY RecoveryMailAssumption DEF RecoveryMailInit, MailTyped, Profile, Never
  <2>3. TokensHeld /\ PassesHeld /\ TimesHeld /\ AddressesHeld
    BY <2>1 DEF TokensHeld, PassesHeld, TimesHeld, AddressesHeld, OnItsWay, At, NoToken
  <2>4. MailsAreRare /\ ToldLinkWorks /\ ResetOnlyToProvedUnlessMoved
    BY <2>1 DEF MailsAreRare, ToldLinkWorks, ResetOnlyToProvedUnlessMoved
  <2> QED BY <2>2, <2>3, <2>4 DEF MailInv
<1>2. MailInv /\ [RecoveryMailNext]_mailing => MailInv'
  <2> SUFFICES ASSUME MailInv, [RecoveryMailNext]_mailing PROVE MailInv'
    OBVIOUS
  <2>1. CASE Tick
    BY <2>1, TickKeeps
  <2>2. ASSUME NEW c \in Calls, NEW u \in Users, AskVerification(c, u) \/ AskReset(c, u)
        PROVE  MailInv'
    <3>1. account[u].email \in Addresses \cup {NoAddress}
      BY MailTypes DEF Profile
    <3> QED BY <2>2, <3>1, RequestBegins DEF AskVerification, AskReset
  <2>3. ASSUME NEW c \in Calls, NEW u \in Users, NEW address \in Addresses \cup {NoAddress},
               AskChange(c, u, address)
        PROVE  MailInv'
    BY <2>3, RequestBegins DEF AskChange
  <2>4. ASSUME NEW c \in Calls,
               \/ ClaimVerification(c) \/ SendVerification(c) \/ TakeBack(c)
               \/ WriteProfile(c) \/ VerifyQuietly(c) \/ ClaimReset(c) \/ SendReset(c)
        PROVE  MailInv'
    BY <2>4, ClaimVerificationKeeps, SendVerificationKeeps, TakeBackKeeps, WriteProfileKeeps,
       VerifyQuietlyKeeps, ClaimResetKeeps, SendResetKeeps
  <2>5. CASE \E mail \in mailbox : Confirm(mail)
    BY <2>5, ConfirmKeeps
  <2>6. CASE \E u \in Users : DropProfile(u)
    BY <2>6, DropProfileKeeps
  <2>7. CASE UNCHANGED mailing
    BY <2>7 DEF mailing, ghosts, MailInv, MailTyped, TokensHeld, PassesHeld, TimesHeld, AddressesHeld,
       MailsAreRare, ToldLinkWorks, ResetOnlyToProvedUnlessMoved, Mails, OnItsWay, Own, At, ProvedFor
  <2> QED BY <2>1, <2>2, <2>3, <2>4, <2>5, <2>6, <2>7 DEF RecoveryMailNext
<1> QED BY <1>1, <1>2, PTL DEF RecoveryMailSpec

(* An address that is proved has one owner and a link to set a password    *)
(* goes to no other address, unless it was changed while a mail to confirm *)
(* it was begun; a mail follows another of the same account only after the *)
(* cooldown, arrived or not, unless the time of the earlier one was taken  *)
(* back as that of a failed mail; the link a person was told of works      *)
(* (recovery-mail.service.ts), for any number of users, addresses and      *)
(* requests at the same time.                                              *)
THEOREM MailsAreSound == RecoveryMailSpec => []MailsSound
<1>1. MailInv => MailsSound
  <2> SUFFICES ASSUME MailInv, NEW address \in Addresses
               PROVE  Cardinality(verifiedOwnerOf(address)) <= 1
    BY DEF MailInv, MailsSound, OneOwner
  <2>1. CASE verifiedOwnerOf(address) = {}
    BY <2>1, FS_EmptySet
  <2>2. CASE verifiedOwnerOf(address) # {}
    <3>1. PICK u \in Users : u \in verifiedOwnerOf(address)
      BY <2>2 DEF verifiedOwnerOf
    <3>2. verifiedOwnerOf(address) = {u}
      BY <3>1 DEF MailInv, AddressesHeld, verifiedOwnerOf
    <3> QED BY <3>2, FS_Singleton
  <2> QED BY <2>1, <2>2
<1> QED BY <1>1, MailInvHolds, PTL

(* The mailer gives up after 10 s and the transaction behind it after 7:   *)
(* as long as that is within the cooldown of 60 s, any two mails let       *)
(* through for an account, arrived or not and of whatever kind, are further*)
(* apart than the cooldown (recovery-mail.service.ts:6), or the earlier is *)
(* a link to confirm that was reported as failed and gave its time back:   *)
(* such a mail may have arrived, and the next one follows at once.         *)
THEOREM MailsKeepTheirDistance ==
  ASSUME MailLife <= Cooldown
  PROVE  RecoveryMailSpec =>
           [](\A s, t \in sent : s.who = t.who /\ s.at < t.at =>
                s.at < t.at - Cooldown \/ (s.kind = "verification" /\ s.by \in freed))
<1>1. MailInv => \A s, t \in sent : s.who = t.who /\ s.at < t.at =>
                   s.at < t.at - Cooldown \/ (s.kind = "verification" /\ s.by \in freed)
  BY DEF MailInv, MailsAreRare, Mails, MailTyped, Passed
<1> QED BY <1>1, MailInvHolds, PTL

=============================================================================
