--------------------------- MODULE SonicwallAuth ---------------------------
(***************************************************************************)
(* The SonicWall logon: the session the client opens on the gateway, the   *)
(* interactive dialog, the checks behind it, the token the tunnel is       *)
(* opened with, reconnection with the existing session, and interactive    *)
(* reauthentication.                                                       *)
(*                                                                         *)
(* Tokens are numbered in the order the gateway issues them.  Any answer   *)
(* may carry a fresh one, and an answer can be lost after the gateway has  *)
(* replaced the token.  The tunnel is opened with the newest token or the  *)
(* gateway rejects it (TEAM AUTH ERROR).                                   *)
(***************************************************************************)
EXTENDS Naturals, Sequences, FiniteSets

CONSTANTS
  Rules,        \* named rules of a zone interrogation
  Supported,    \* the rules this client can evaluate
  MaxTokens,    \* bound on the tokens the gateway issues
  MaxSessions,  \* bound on logon sessions
  MaxReplies,   \* bound on the replies in the queue
  Budget        \* Len(SONICWALL_RECONNECT_BACKOFFS)

VARIABLES
  live,      \* gateway: the logon sessions it holds
  issued,    \* gateway: the newest token, 0 for none
  missed,    \* an answer with a fresh token was lost since the last one came
  authPhase,     \* where the session worker stands
  session,   \* the logon session in use
  token,     \* LogonIdState.token
  challenge, \* challenge_sequence of the dialog
  replies,   \* the queue of SonicwallAuthInput, kept across reauthentication
  shutdown,  \* the shutdown flag
  failures,  \* reconnect_failures
  used,      \* history: tokens presented, with the gateway's verdict
  accepted,  \* history: replies taken for each challenge
  answered,  \* history: interrogations asked and answered
  lost       \* history: sessions whose deletion failed

swVars == <<live, issued, missed, authPhase, session, token, challenge,
            replies, shutdown, failures, used, accepted, answered, lost>>

LogonInit ==
  /\ live = {} /\ issued = 0 /\ missed = FALSE
  /\ authPhase = "discover" /\ session = 0 /\ token = 0 /\ challenge = 0
  /\ replies = <<>> /\ shutdown = FALSE /\ failures = 0
  /\ used = {} /\ accepted = {} /\ answered = {} /\ lost = {}

----------------------------------------------------------------------------
(* Answers of the gateway. *)

\* Fault: a token is kept once one has been seen.
BugCapture(fresh) == IF token = 0 THEN fresh ELSE token

\* capture_logon_id: the last valid token of an answer replaces the older one.
Capture(fresh) == fresh

\* A request to the session: the answer may carry a fresh token.
Answered ==
  \/ UNCHANGED <<issued, token, missed>>
  \/ /\ issued < MaxTokens /\ issued' = issued + 1
     /\ token' = Capture(issued + 1) /\ missed' = FALSE

\* The answer is lost; the gateway may have replaced the token.
Unanswered ==
  /\ \/ UNCHANGED <<issued, missed>>
     \/ issued < MaxTokens /\ issued' = issued + 1 /\ missed' = TRUE
  /\ UNCHANGED token

Goto(p) == authPhase' = p

\* parse_auth_step: authenticated wherever the answer says so, else a form to
\* fill in, else nothing this client knows, which fails the dialog.
Steps == {"interrogate", "challenge", "failed"}

\* run_sonicwall_authentication closes the session however the dialog ended;
\* the DELETE itself may fail.
Close ==
  \/ live' = live \ {session} /\ UNCHANGED lost
  \/ lost' = lost \cup {session} /\ UNCHANGED live

Quiet == UNCHANGED <<replies, shutdown, answered>>

----------------------------------------------------------------------------
(* Logon and dialog. *)

\* discover_realms, the choice of the transport and the LoginGroup check.
DiscoverRealms ==
  /\ authPhase = "discover"
  /\ \/ shutdown /\ Goto("ended")
     \/ ~shutdown /\ authPhase' \in {"logon", "ended"}
  /\ Quiet /\ UNCHANGED <<live, issued, missed, session, token, challenge, failures,
                          used, accepted, lost>>

\* start_logon: the cached legacy resource at once, or the official one with
\* the legacy one as fallback; the answer carries the session's location.
StartLogon ==
  /\ authPhase = "logon" /\ session < MaxSessions
  /\ \/ /\ ~shutdown
        /\ session' = session + 1
        /\ live' = live \cup {session + 1}
        /\ \/ token' = 0 /\ UNCHANGED <<issued, missed>>
           \/ /\ issued < MaxTokens /\ issued' = issued + 1
              /\ token' = issued + 1 /\ missed' = FALSE
        /\ Goto("agent") /\ challenge' = 0
     \/ Goto("ended") /\ UNCHANGED <<live, issued, missed, session, token, challenge>>
  /\ UNCHANGED <<replies, shutdown, failures, used, accepted, answered, lost>>

\* get_agent_info, post_agent_info and the first authenticate.  A failed
\* request fails the dialog; so does an answer that is neither a challenge
\* nor the end of the authentication.
AgentInfo ==
  /\ authPhase = "agent"
  /\ \/ Answered /\ authPhase' \in Steps
     \/ Unanswered /\ Goto("failed")
  /\ challenge' = IF authPhase' = "challenge" THEN 1 ELSE challenge
  /\ Quiet /\ UNCHANGED <<live, session, failures, used, accepted, lost>>

\* The user answers a challenge, perhaps one that is no longer shown.
Reply(s, c) ==
  /\ authPhase # "ended" /\ Len(replies) < MaxReplies
  /\ s <= session /\ s > 0 /\ (s = session => c <= challenge)
  /\ replies' = Append(replies, [session |-> s, challenge |-> c])
  /\ UNCHANGED <<live, issued, missed, authPhase, session, token, challenge,
                 shutdown, failures, used, accepted, answered, lost>>

\* Fault: the next reply is taken for the challenge that is shown.
BugMatches(r) == TRUE

\* wait_for_sonicwall_auth_reply compares both ids.
Matches(r) == r.session = session /\ r.challenge = challenge

\* One reply taken from the queue: a stale one is dropped, the matching one is
\* posted once.
Authenticate ==
  /\ authPhase = "challenge" /\ ~shutdown /\ replies # <<>>
  /\ replies' = Tail(replies)
  /\ IF ~Matches(Head(replies))
       THEN UNCHANGED <<issued, missed, token, authPhase, challenge, accepted>>
       ELSE /\ accepted' = accepted \cup
                 {[at |-> <<session, challenge>>,
                   reply |-> <<Head(replies).session, Head(replies).challenge>>]}
            /\ \/ Answered /\ authPhase' \in Steps
               \/ Unanswered /\ Goto("failed")
            /\ challenge' = IF authPhase' = "challenge" THEN challenge + 1 ELSE challenge
            /\ challenge' <= 2
  /\ UNCHANGED <<live, session, shutdown, failures, used,
                 answered, lost>>

AskToEnd ==
  /\ ~shutdown /\ authPhase # "ended" /\ shutdown' = TRUE
  /\ UNCHANGED <<live, issued, missed, authPhase, session, token, challenge,
                 replies, failures, used, accepted, answered, lost>>

\* The user cancels, or the flag is seen, while a challenge waits.
Cancelled ==
  /\ authPhase = "challenge"
  /\ Goto("failed")
  /\ Quiet /\ UNCHANGED <<live, issued, missed, session, token, challenge, failures,
                          used, accepted, lost>>

----------------------------------------------------------------------------
(* The checks behind the dialog. *)

\* Fault: rules that cannot be evaluated are left out of the answer.
BugEvaluate(asked) == asked \cap Supported

\* evaluate_supported_zone_interrogation: the rules answered, or none at all
\* when one of them is beyond this client.
Evaluate(asked) == IF asked \subseteq Supported THEN asked ELSE {}

\* probe_interrogation_endpoint: a missing resource and a failed request are
\* tolerated; an empty interrogation is answered with the minimal response.
Interrogate ==
  /\ authPhase = "interrogate"
  /\ \/ \E asked \in SUBSET Rules :
          /\ Answered
          /\ answered' = answered \cup {[asked |-> asked, answer |-> Evaluate(asked)]}
     \/ Unanswered /\ UNCHANGED answered
  /\ Goto("state")
  /\ UNCHANGED <<live, session, challenge, replies, shutdown,
                 failures, used, accepted, lost>>

\* probe_license_state and probe_connection_state: failures are tolerated.
ProbeState ==
  /\ authPhase = "state"
  /\ Answered \/ Unanswered
  /\ Goto("activate")
  /\ Quiet /\ UNCHANGED <<live, session, challenge, failures, used, accepted, lost>>

\* activate_connect_tunnel_agent: a failed request fails the dialog.
Activate ==
  /\ authPhase = "activate"
  /\ \/ Answered /\ Goto("establish")
     \/ Unanswered /\ Goto("failed")
  /\ Quiet /\ UNCHANGED <<live, session, challenge, failures, used, accepted, lost>>

----------------------------------------------------------------------------
(* The tunnel. *)

Valid == token = issued /\ token # 0 /\ session \in live
Presented(verdict) ==
  used' = used \cup {[token |-> token, verdict |-> verdict,
                     excused |-> missed \/ session \notin live]}

\* run_sonicwall_authenticated_tunnel: the first bootstrap.  Only a rejected
\* TEAM token leads back to the logon.
EstablishTunnel ==
  /\ authPhase = "establish"
  /\ \/ token = 0 /\ Goto("failed") /\ UNCHANGED used
     \/ token # 0 /\ Goto("failed") /\ UNCHANGED used
     \/ Valid /\ Goto("tunnel") /\ Presented("accepted")
     \/ token # 0 /\ ~Valid /\ Goto("renew") /\ Presented("rejected")
  /\ Quiet /\ UNCHANGED <<live, issued, missed, session, token, challenge, failures,
                          accepted, lost>>

\* supervise_sonicwall_tun_data_plane: a keepalive of the control session.
Keepalive ==
  /\ authPhase = "tunnel" /\ (Answered \/ Unanswered)
  /\ Quiet /\ UNCHANGED <<live, authPhase, session, challenge, failures, used,
                          accepted, lost>>

\* The gateway forgets the session; its tokens die with it.
SessionExpires ==
  /\ session \in live /\ live' = live \ {session}
  /\ UNCHANGED <<issued, missed, authPhase, session, token, challenge,
                 replies, shutdown, failures, used, accepted, answered, lost>>

\* The transport is lost after a short or a long uptime, the outbound changes,
\* or the data plane ends.
TunnelLost ==
  /\ authPhase = "tunnel"
  /\ \/ authPhase' = "failed" /\ UNCHANGED failures
     \/ Goto("migrate") /\ failures' = 0
     \/ Goto("reconnect") /\ failures' \in {0, failures}
  /\ Quiet /\ UNCHANGED <<live, issued, missed, session, token, challenge, used,
                          accepted, lost>>

\* schedule_sonicwall_reconnect, then the state of the control session: when
\* its resource is gone, the logon is renewed.
ReconnectBackoff ==
  /\ authPhase \in {"reconnect", "migrate"}
  /\ \/ authPhase = "reconnect" /\ failures = Budget /\ Goto("failed")
        /\ UNCHANGED <<failures, issued, missed, token>>
     \/ /\ authPhase = "migrate" \/ failures < Budget
        /\ failures' = IF authPhase = "migrate" THEN failures ELSE failures + 1
        /\ \/ session \notin live /\ Goto("renew") /\ UNCHANGED <<issued, missed, token>>
           \/ session \in live /\ Answered /\ Goto("reestablish")
           \/ Unanswered /\ Goto("reestablish")
  /\ Quiet /\ UNCHANGED <<live, session, challenge, used, accepted, lost>>

\* The bootstrap of a reconnection: every failure, a rejected TEAM token
\* included, counts against the budget (the check for a rejection looks at
\* the error of evpn_identity, which never is one).
Reestablish ==
  /\ authPhase = "reestablish"
  /\ \/ shutdown /\ Goto("failed") /\ UNCHANGED used
     \/ ~shutdown /\ Valid /\ Goto("tunnel") /\ Presented("accepted")
     \/ ~shutdown /\ token # 0 /\ ~Valid /\ Goto("reconnect") /\ Presented("rejected")
     \/ ~shutdown /\ Goto("reconnect") /\ UNCHANGED used
  /\ Quiet /\ UNCHANGED <<live, issued, missed, session, token, challenge, failures,
                          accepted, lost>>

----------------------------------------------------------------------------
(* The end of a session. *)

\* Fault: the expired session is left to the gateway.
BugRenew ==
  /\ authPhase = "renew" /\ session < MaxSessions
  /\ UNCHANGED <<live, lost>>
  /\ Goto(IF shutdown THEN "ended" ELSE "logon") /\ failures' = 0
  /\ Quiet /\ UNCHANGED <<issued, missed, session, token, challenge, used, accepted>>

\* SonicwallReauthenticationRequired: the old session is deleted, bounded in
\* time, and the logon starts over with the same reply queue.
Renew ==
  /\ authPhase = "renew" /\ session < MaxSessions
  /\ Close
  /\ Goto(IF shutdown THEN "ended" ELSE "logon") /\ failures' = 0
  /\ Quiet /\ UNCHANGED <<issued, missed, session, token, challenge, used, accepted>>

End ==
  /\ authPhase = "failed"
  /\ Close /\ Goto("ended")
  /\ Quiet /\ UNCHANGED <<issued, missed, session, token, challenge, failures, used, accepted>>

SwNext ==
  \/ DiscoverRealms \/ StartLogon \/ AgentInfo \/ Authenticate \/ AskToEnd \/ Cancelled
  \/ \E s \in 1 .. MaxSessions, c \in 1 .. 2 : Reply(s, c)
  \/ Interrogate \/ ProbeState \/ Activate
  \/ EstablishTunnel \/ Keepalive \/ SessionExpires \/ TunnelLost \/ ReconnectBackoff \/ Reestablish
  \/ Renew \/ End

LogonSpec == LogonInit /\ [][SwNext]_swVars

----------------------------------------------------------------------------
(* Properties. *)

\* A reply is posted for the challenge it was given for, never for a later
\* challenge or for the dialog of a renewed session that reads the same queue.
RepliesMatch == \A a \in accepted : a.at = a.reply

\* When the worker has ended, the gateway holds none of its sessions, over any
\* number of renewals, except one whose deletion failed.
NoSessionLeft == authPhase = "ended" => live \subseteq lost

\* A zone interrogation is answered for all of its rules or not at all.
AnsweredInFull == \A i \in answered : i.answer = i.asked \/ i.answer = {}

\* The client presents the newest token that reached it: the gateway rejects
\* one only when the session is gone or the answer with a newer one was lost.
LatestTokenUsed == \A u \in used : u.verdict = "rejected" => u.excused

\* Together: the conversation with the gateway, over any number of renewals.
LogonSound == RepliesMatch /\ NoSessionLeft /\ AnsweredInFull /\ LatestTokenUsed

\* Expected by the test sonicwall_team_auth_rejection_requires_fresh_authentication
\* and by the message of the reconnect loop ("switching immediately to
\* interactive reauthentication"): a token the gateway rejected is not presented
\* to it again by the next attempt to reconnect.
RejectionRenews ==
  authPhase = "reestablish" =>
    \A u \in used : u.verdict = "rejected" => u.token # token
=============================================================================
