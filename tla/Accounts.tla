------------------------------ MODULE Accounts ------------------------------
(***************************************************************************)
(* The lifecycle of one local account (backend/core/accounts.py): its      *)
(* links by mail, its address, its password and the sessions of its        *)
(* browsers.  Every write takes the owner's lock and is one step; what     *)
(* happens outside the lock is a step of its own: the credentials read     *)
(* before a sign-in, the address read before a link is asked for, the      *)
(* unlocked check of the session middleware, a registration that has       *)
(* written its mail and has not committed, the mail erased after a         *)
(* deletion has committed.                                                 *)
(***************************************************************************)
EXTENDS Naturals, FiniteSets

CONSTANTS Browsers,     \* the clients that sign in
          Addresses,    \* the mail addresses the owner may use
          First,        \* the address of the registration
          MaxPassword,  \* bound: passwords ever set
          MaxEpoch,     \* bound: times every session is revoked
          MaxLinks      \* bound: links ever written to the mailbox

VARIABLES account,      \* the User, Profile and AccountEmail rows
          links,        \* the AccountChallenge rows neither consumed nor expired
          mailbox,      \* the numbers of the links whose envelope is on disk
          issued,       \* links ever written
          mails,        \* links issued in this hour
          registering,  \* the link of a registration that has not committed
          asking,       \* a link request that has read the address and waits for the lock
          browser,      \* per client: its session cookie and what it is doing
          cut,          \* the clients whose session has been ended by the owner
          wanted,       \* the address the owner asked for last
          servedCut     \* whether a request of an ended session was ever let through

vars == <<account, links, mailbox, issued, mails, registering, asking, browser, cut, wanted,
          servedCut>>

None == <<>>   \* an absent row
Unusable == 0
Link == [number : 1..MaxLinks, purpose : {"VERIFY", "RESET"}, email : Addresses,
         activates : BOOLEAN, auth : 0..MaxPassword]
Session == [password : 0..MaxPassword, epoch : 0..MaxEpoch,
            entry : {"untracked", "live", "revoked"}]
NoAccount == [exists |-> FALSE, active |-> FALSE, deleted |-> FALSE, password |-> 1, epoch |-> 0,
              address |-> First, verified |-> FALSE]
SignedOut == [session |-> None, step |-> "idle", password |-> Unusable]

Init ==
    /\ account = NoAccount
    /\ links = {} /\ mailbox = {} /\ issued = 0 /\ mails = 0
    /\ registering = None /\ asking = None
    /\ browser = [b \in Browsers |-> SignedOut]
    /\ cut = {} /\ wanted = First /\ servedCut = FALSE

mailVars == <<links, mailbox, issued, mails>>
clientVars == <<browser, cut, servedCut>>

-----------------------------------------------------------------------------
(* Links.                                                                  *)

NewLink(purpose, email, activates) ==
    [number |-> issued + 1, purpose |-> purpose, email |-> email, activates |-> activates,
     auth |-> account.password]

(* issue_challenge: one live link for a purpose; the envelope is written   *)
(* inside the transaction and stays when that rolls back.                  *)
Issue(link) ==
    /\ issued < MaxLinks
    /\ issued' = link.number
    /\ mailbox' = mailbox \union {link.number}
    /\ \/ /\ mails' = mails + 1
          /\ links' = {l \in links : l.purpose # link.purpose} \union {link}
       \/ UNCHANGED <<mails, links>>

(* Three links an hour; the fourth is dropped and the reply is the same.   *)
Spent == mails >= 3
IssueOrDrop(link) == IF Spent THEN UNCHANGED mailVars ELSE Issue(link)

(* register: the rows are not visible before the commit, the envelope is.  *)
RegisterWrites ==
    /\ ~account.exists /\ registering = None /\ issued < MaxLinks
    /\ registering' = NewLink("VERIFY", First, TRUE)
    /\ issued' = issued + 1
    /\ mailbox' = mailbox \union {issued + 1}
    /\ UNCHANGED <<account, links, mails, asking, clientVars, wanted>>

RegisterCommits ==
    /\ registering # None
    /\ account' = [account EXCEPT !.exists = TRUE]
    /\ links' = {registering}
    /\ mails' = mails + 1
    /\ registering' = None
    /\ UNCHANGED <<mailbox, issued, asking, clientVars, wanted>>

RegisterRollsBack ==
    /\ registering # None
    /\ registering' = None
    /\ UNCHANGED <<account, mailVars, asking, clientVars, wanted>>

(* request_link reads the address before it takes the owner's lock.        *)
AskReads(purpose) ==
    /\ asking = None /\ account.exists /\ ~account.deleted
    /\ asking' = [purpose |-> purpose, email |-> account.address, verified |-> account.verified]
    /\ UNCHANGED <<account, mailVars, registering, clientVars, wanted>>

Answerable ==
    /\ ~account.deleted
    /\ asking.purpose = "RESET" => account.active /\ asking.verified
    /\ asking.purpose = "VERIFY" => ~asking.verified

AskIssues ==
    /\ asking # None
    /\ asking' = None
    /\ IF Answerable
       THEN IssueOrDrop(NewLink(asking.purpose, asking.email, ~asking.verified))
       ELSE UNCHANGED mailVars
    /\ UNCHANGED <<account, registering, clientVars, wanted>>

(* change_email: asked for with the password.                              *)
ChangeEmail(email) ==
    /\ account.active
    /\ IssueOrDrop(NewLink("VERIFY", email, FALSE))
    /\ wanted' = IF \E l \in links' \ links : l.email = email THEN email ELSE wanted
    /\ UNCHANGED <<account, registering, asking, clientVars>>

-----------------------------------------------------------------------------
(* Sessions.                                                               *)

HasSession(b) == browser[b].session # None
(* The sessions the owner ends by changing a credential, sign-ins that     *)
(* have checked the old one included.                                      *)
EndEverySession ==
    /\ account.epoch < MaxEpoch
    /\ browser' = [b \in Browsers |->
           IF HasSession(b) /\ browser[b].session.entry = "live"
           THEN [browser[b] EXCEPT !.session.entry = "revoked"] ELSE browser[b]]
    /\ UNCHANGED servedCut
Holding == {b \in Browsers : HasSession(b) \/ browser[b].step = "login"}
Tracked == {b \in Browsers : HasSession(b)}

SetPassword ==
    /\ account.password < MaxPassword
    /\ account' = [account EXCEPT !.password = @ + 1, !.epoch = @ + 1]
    /\ EndEverySession
    /\ cut' = cut \union Holding
    /\ links' = {}

Good(link) == link \in links /\ link.auth = account.password /\ ~account.deleted

(* consume_challenge of a reset link.                                      *)
Reset(link) ==
    /\ Good(link) /\ link.purpose = "RESET"
    /\ account.active /\ account.verified /\ account.address = link.email
    /\ SetPassword
    /\ UNCHANGED <<mailbox, issued, mails, registering, asking, wanted>>

(* A fault: a link that activates works on an account with a verified      *)
(* address.                                                                *)
VerifyAlways(link) ==
    /\ Good(link) /\ link.purpose = "VERIFY"
    /\ ~account.active => link.activates
    /\ account' = [account EXCEPT !.address = link.email, !.verified = TRUE, !.active = TRUE]
    /\ links' = links \ {link}
    /\ UNCHANGED <<mailbox, issued, mails, registering, asking, clientVars, wanted>>

(* consume_challenge of a verification link.                               *)
Verify(link) ==
    /\ Good(link) /\ link.purpose = "VERIFY"
    /\ ~account.active => link.activates
    /\ ~(link.activates /\ account.verified)
    /\ account' = [account EXCEPT !.address = link.email, !.verified = TRUE, !.active = TRUE]
    /\ links' = links \ {link}
    /\ UNCHANGED <<mailbox, issued, mails, registering, asking, clientVars, wanted>>

ChangePassword ==
    /\ account.active
    /\ SetPassword
    /\ UNCHANGED <<mailbox, issued, mails, registering, asking, wanted>>

LogoutAll ==
    /\ account.active
    /\ account' = [account EXCEPT !.epoch = @ + 1]
    /\ EndEverySession
    /\ cut' = cut \union Tracked
    /\ UNCHANGED <<mailVars, registering, asking, wanted>>

(* delete_account commits; its mail is erased after that.                  *)
DeleteAccount ==
    /\ account.active
    /\ account' = [account EXCEPT !.active = FALSE, !.deleted = TRUE, !.password = Unusable,
                                  !.epoch = @ + 1, !.verified = FALSE]
    /\ EndEverySession
    /\ cut' = cut \union Holding
    /\ links' = {}
    /\ UNCHANGED <<mailbox, issued, mails, registering, asking, wanted>>

(* Sign-in: the password is checked without the lock, and compared again   *)
(* under it.                                                               *)
Authenticate(b) ==
    /\ browser[b].step = "idle" /\ account.active
    /\ browser' = [browser EXCEPT ![b].step = "login", ![b].password = account.password]
    /\ UNCHANGED <<account, mailVars, registering, asking, cut, wanted, servedCut>>

(* A fault: the password is not compared again under the lock.             *)
SignInUnchecked(b) ==
    /\ browser[b].step = "login"
    /\ IF account.active
       THEN /\ browser' = [browser EXCEPT ![b] = [SignedOut EXCEPT !.session =
                  [password |-> account.password, epoch |-> account.epoch, entry |-> "live"]]]
            /\ cut' = IF browser[b].password = account.password THEN cut \ {b} ELSE cut
       ELSE /\ browser' = [browser EXCEPT ![b].step = "idle", ![b].password = Unusable]
            /\ UNCHANGED cut
    /\ UNCHANGED <<account, mailVars, registering, asking, wanted, servedCut>>

SignIn(b) ==
    /\ browser[b].step = "login"
    /\ IF account.active /\ browser[b].password = account.password
       THEN /\ browser' = [browser EXCEPT ![b] = [SignedOut EXCEPT !.session =
                  [password |-> account.password, epoch |-> account.epoch, entry |-> "live"]]]
            /\ cut' = cut \ {b}
       ELSE /\ browser' = [browser EXCEPT ![b].step = "idle", ![b].password = Unusable]
            /\ UNCHANGED cut
    /\ UNCHANGED <<account, mailVars, registering, asking, wanted, servedCut>>

(* The administration site signs in without recording an epoch.            *)
AdminSignIn(b) ==
    /\ browser[b].step = "idle" /\ account.active
    /\ browser' = [browser EXCEPT ![b].session =
           [password |-> account.password, epoch |-> 0, entry |-> "untracked"]]
    /\ cut' = cut \ {b}
    /\ UNCHANGED <<account, mailVars, registering, asking, wanted, servedCut>>

SessionEnds(b) == browser' = [browser EXCEPT ![b].session = None, ![b].step = "idle"]
Serve(b) == servedCut' = (servedCut \/ b \in cut)

(* The framework drops a session whose password hash is stale or whose     *)
(* user is inactive.                                                       *)
KnownUser(b) == account.active /\ browser[b].session.password = account.password

(* AccountSessionMiddleware.  No lock spans the check and the view: served *)
(* says that a request was let through to its view, which may answer after *)
(* the session has ended.  What a view writes it writes under the owner's  *)
(* lock, by the actions above, which ask for no session.                   *)
Admits(b) ==
    /\ KnownUser(b)
    /\ browser[b].session.epoch = account.epoch /\ ~account.deleted
    /\ browser[b].session.entry # "revoked"

Request(b) ==
    /\ HasSession(b) /\ browser[b].step = "idle"
    /\ IF ~Admits(b) THEN SessionEnds(b) /\ UNCHANGED servedCut
       ELSE IF browser[b].session.entry = "untracked"
       THEN /\ browser' = [browser EXCEPT ![b].step = "tracking"]
            /\ UNCHANGED servedCut
       ELSE Serve(b) /\ UNCHANGED browser
    /\ UNCHANGED <<account, mailVars, registering, asking, cut, wanted>>

(* track_session, under the owner's lock, for a session without an entry.  *)
Track(b) ==
    /\ HasSession(b) /\ browser[b].step = "tracking"
    /\ IF KnownUser(b) /\ ~account.deleted /\ browser[b].session.epoch = account.epoch
       THEN /\ browser' = [browser EXCEPT
                 ![b] = [browser[b] EXCEPT !.step = "idle", !.session.entry = "live"]]
            /\ Serve(b)
       ELSE SessionEnds(b) /\ UNCHANGED servedCut
    /\ UNCHANGED <<account, mailVars, registering, asking, cut, wanted>>

RevokeSession(b) ==
    /\ account.active
    /\ HasSession(b) /\ browser[b].session.entry = "live"
    /\ browser' = [browser EXCEPT ![b].session.entry = "revoked"]
    /\ cut' = cut \union {b}
    /\ UNCHANGED <<account, mailVars, registering, asking, wanted, servedCut>>

Logout(b) ==
    /\ HasSession(b) /\ browser[b].step = "idle"
    /\ SessionEnds(b)
    /\ UNCHANGED <<account, mailVars, registering, asking, cut, wanted, servedCut>>

-----------------------------------------------------------------------------
(* Time and maintenance.                                                   *)

(* Links last half an hour, that of an open registration too.              *)
LinksExpire ==
    /\ links # {} \/ registering # None
    /\ links' = {}
    /\ registering' = None
    /\ UNCHANGED <<account, mailbox, issued, mails, asking, clientVars, wanted>>

(* The hours are those of the clock: the count starts again while links of *)
(* the hour before are alive, and while a registration has not committed.  *)
HourPasses ==
    /\ mails > 0
    /\ mails' = 0
    /\ UNCHANGED <<account, links, mailbox, issued, registering, asking, clientVars, wanted>>

Live(n) == \E l \in links : l.number = n

(* cleanup_account_mail: an envelope without a visible owner is left alone *)
(* for half an hour, because its registration may still commit.            *)
Cleanup(n) ==
    /\ n \in mailbox
    /\ ~Live(n)
    /\ registering # None => registering.number # n
    /\ mailbox' = mailbox \ {n}
    /\ UNCHANGED <<account, links, issued, mails, registering, asking, clientVars, wanted>>

EraseMail ==
    /\ account.deleted /\ mailbox # {}
    /\ mailbox' = {}
    /\ UNCHANGED <<account, links, issued, mails, registering, asking, clientVars, wanted>>

Next ==
    \/ RegisterWrites \/ RegisterCommits \/ RegisterRollsBack
    \/ \E purpose \in {"VERIFY", "RESET"} : AskReads(purpose)
    \/ AskIssues
    \/ \E email \in Addresses : ChangeEmail(email)
    \/ \E link \in links : Reset(link) \/ Verify(link)
    \/ ChangePassword \/ LogoutAll \/ DeleteAccount
    \/ \E b \in Browsers : Authenticate(b) \/ SignIn(b) \/ AdminSignIn(b) \/ Request(b)
                           \/ Track(b) \/ RevokeSession(b) \/ Logout(b)
    \/ LinksExpire \/ HourPasses
    \/ \E n \in mailbox : Cleanup(n)
    \/ EraseMail

Spec == Init /\ [][Next]_vars

-----------------------------------------------------------------------------
TypeOK ==
    /\ links \subseteq Link
    /\ mailbox \subseteq 1..MaxLinks
    /\ registering \in Link \union {None}
    /\ \A b \in Browsers : browser[b].session \in Session \union {None}

(* One live link of a purpose, and its envelope is there to be read: the   *)
(* maintenance never takes the mail of a registration that commits after   *)
(* it looked.                                                              *)
LiveLinkDelivered ==
    /\ \A l \in links : l.number \in mailbox
    /\ \A l, m \in links : l.purpose = m.purpose => l = m

(* After a session was ended by a new password, a sign-out everywhere, a   *)
(* revocation or the deletion of the account, no request of it is let      *)
(* through to a view again, and no sign-in that had checked the old        *)
(* password brings one.                                                    *)
EndedSessionsStayOut == ~servedCut

(* accounts.py keeps its links and its sessions in order.                  *)
AccountsSound == TypeOK /\ LiveLinkDelivered /\ EndedSessionsStayOut

(* The address changes only to the one the owner asked for last, whatever  *)
(* older links are around, and a reset works only from the mailbox the     *)
(* account has now.                                                        *)
ProvedChange ==
    /\ account'.address # account.address => account'.address = wanted
    /\ \A l \in links : Reset(l) => l.email = account.address

AccountChangesAreProved == [][ProvedChange]_vars
=============================================================================
