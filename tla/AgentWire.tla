----------------------------- MODULE AgentWire -----------------------------
(***************************************************************************)
(* The wire between a resident agent and the Hub (internal/agentwire): the *)
(* samples, the clock they are judged by, and the requests under way.      *)
(***************************************************************************)
EXTENDS Integers, FiniteSets

CONSTANTS Samples,   \* sample IDs; an ID stands for one observation for ever
          Reqs,      \* requests that may be under way at once
          MaxNow,    \* bound on the Hub clock
          Past,      \* how old a sample may be (MaxAge plus one hour)
          Future     \* how far ahead of the Hub a sample's clock may be

ASSUME SamplesFinite == IsFiniteSet(Samples)
ASSUME WindowNat == Past \in Nat /\ Future \in Nat /\ MaxNow \in Nat

VARIABLES now,     \* the Hub's clock
          stime,   \* Sample.Time, by the agent's clock
          req      \* requests, from the write to the end of the reply

wireVars == <<now, stime, req>>

(* Sample.Validate(at), for the one error that a well-formed sample can meet
   later although it passed when it was captured: ErrSampleTime. *)
Valid(s, at) == stime[s] >= at - Past /\ stime[s] <= at + Future

(* free      no such request
   sent      written by the agent, not yet read by the Hub
   admitted  past the checks of receive, about to be ingested
   replied   the Hub has answered *)
ReqPCs == {"free", "sent", "admitted", "replied"}
Request == [pc : ReqPCs, samples : SUBSET Samples, valid : SUBSET Samples,
            rejected : SUBSET Samples, ack : SUBSET Samples]
NoRequest == [pc |-> "free", samples |-> {}, valid |-> {}, rejected |-> {}, ack |-> {}]

Reply(ack, rejected) == [NoRequest EXCEPT !.pc = "replied", !.ack = ack, !.rejected = rejected]

WireInit ==
  /\ now = 0
  /\ stime = [s \in Samples |-> 0]
  /\ req = [r \in Reqs |-> NoRequest]

WireTypeOK ==
  /\ now \in 0..MaxNow
  /\ stime \in [Samples -> 0..MaxNow]
  /\ req \in [Reqs -> Request]
  /\ \A r \in Reqs : (req[r].valid \cup req[r].ack) \cap req[r].rejected = {}

(* A request or a reply is lost: a broken connection, or an HTTP error. *)
Lose(r) ==
  /\ req[r].pc \in {"sent", "replied"}
  /\ req' = [req EXCEPT ![r] = NoRequest]
============================================================================
