----------------------- MODULE RecorderServices_proofs -----------------------
(***************************************************************************)
(* The turn client and the services of the recorder, for every set of      *)
(* requests and any number of faults: first the client by itself, then the *)
(* inductive invariants of the codec, of sleep and of the journal (updates,*)
(* cues and settings have modules of their own), and at the end what all   *)
(* of them keep as the parts of one recorder.                              *)
(***************************************************************************)
EXTENDS RecorderServices, FiniteSetTheorems, TLAPS

Phases == {"open", "accepted", "working"} \union Gateway!Outcome

GatewayType ==
  /\ phase \in [Requests -> Phases]
  /\ audio \in [Requests -> Digests \union {NoDigest}]
  /\ played \in [Requests -> BOOLEAN]
  /\ sent \subseteq Requests

DeviceType ==
  /\ nvs \in [req: Ids, turn: Ids]
  /\ dev \in Client
  /\ starts \in [Requests -> Nat]

(* A worker follows a real request, and downloads for a turn it knows.     *)
Follows(client) ==
  /\ client.pc # "off" => client.req \in Requests
  /\ client.pc \in {"download", "stream"} \/ client.pending => client.turn \in Requests

Followed == Follows(dev)

(* The gateway's claim is what carries the proof: audio that started was   *)
(* claimed before, and an open stream that did not start yet is the first  *)
(* one of its turn.                                                        *)
StartsAreClaimed ==
  \A r \in Requests : starts[r] <= 1 /\ (starts[r] = 1 => played[r])

OpenStream ==
  dev.pc = "stream" => played[dev.turn] /\ (~dev.started => starts[dev.turn] = 0)

IInv == GatewayType /\ DeviceType /\ Followed /\ StartsAreClaimed /\ OpenStream

-----------------------------------------------------------------------------
(* The first state satisfies the invariant.                                *)
LEMMA InitInv == Init => IInv
  BY SMT DEF Init, Gateway!Init, IInv, GatewayType, DeviceType, Followed, Follows, StartsAreClaimed, OpenStream,
     Phases, Gateway!Outcome, NoIds, Idle, Ids, Client, Results

(* A worker that is idle keeps every part that speaks of it.               *)
LEMMA IdleKeeps ==
  ASSUME IInv, NEW result \in Results, NEW refused \in BOOLEAN, nvs' \in {nvs, NoIds},
         dev' = Idle(result) \/ dev' = [Idle(result) EXCEPT !.refused = refused],
         GatewayType', starts' = starts,
         \A r \in Requests : played[r] => played'[r]
  PROVE  IInv'
<1>i. Idle(result) \in Client /\ Idle(result).pc = "off" /\ ~Idle(result).pending
  BY DEF Idle, Ids, Client
<1>1. dev' \in Client /\ dev'.pc = "off" /\ ~dev'.pending
  BY <1>i DEF Client
<1>2. nvs' \in [req: Ids, turn: Ids]
  BY DEF IInv, DeviceType, NoIds, Ids
<1>3. DeviceType' /\ Followed' /\ OpenStream'
  BY <1>1, <1>2 DEF IInv, DeviceType, Followed, Follows, OpenStream
<1>4. StartsAreClaimed'
  BY DEF IInv, StartsAreClaimed
<1> QED BY <1>3, <1>4 DEF IInv

(* A step of the client that neither opens nor starts a stream.            *)
LEMMA ClientKeeps ==
  ASSUME IInv, GatewayType', \A r \in Requests : played[r] => played'[r],
         starts' = starts, nvs' \in [req: Ids, turn: Ids], dev' \in Client,
         Follows(dev'),
         dev'.pc = "stream" => dev.pc = "stream" /\ dev'.turn = dev.turn /\ dev'.started = dev.started
  PROVE  IInv'
<1>1. DeviceType' /\ Followed'
  BY DEF IInv, DeviceType, Followed
<1>2. StartsAreClaimed'
  BY DEF IInv, StartsAreClaimed
<1>3. OpenStream'
  <2>1. SUFFICES ASSUME dev'.pc = "stream"
                 PROVE  played'[dev'.turn] /\ (~dev'.started => starts'[dev'.turn] = 0)
    BY DEF OpenStream
  <2>2. dev.pc = "stream" /\ dev'.turn = dev.turn /\ dev'.started = dev.started
    BY <2>1
  <2>3. dev.turn \in Requests
    BY <2>2 DEF IInv, Followed, Follows
  <2> QED BY <2>2, <2>3 DEF IInv, OpenStream
<1> QED BY <1>1, <1>2, <1>3 DEF IInv

(* The gateway's steps keep its types and take no claim back.              *)
LEMMA GatewayAccept ==
  ASSUME GatewayType, UNCHANGED sent, NEW r \in Requests, NEW d \in Digests, Gateway!Accept(r, d)
  PROVE  GatewayType' /\ played' = played
  BY SMT DEF GatewayType, Gateway!Accept, Phases, Gateway!Outcome

LEMMA GatewayWork ==
  ASSUME GatewayType, UNCHANGED sent, NEW r \in Requests, Gateway!Work(r) \/ Gateway!CancelAccepted(r)
  PROVE  GatewayType' /\ played' = played
  BY SMT DEF GatewayType, Gateway!Work, Gateway!CancelAccepted, Phases, Gateway!Outcome

LEMMA GatewayFinish ==
  ASSUME GatewayType, UNCHANGED sent, NEW r \in Requests, NEW outcome \in Gateway!Outcome, Gateway!Finish(r, outcome)
  PROVE  GatewayType' /\ played' = played
  BY SMT DEF GatewayType, Gateway!Finish, Phases, Gateway!Outcome

LEMMA GatewayCancel ==
  ASSUME GatewayType, UNCHANGED sent, NEW r \in Requests, GatewayCancels(r)
  PROVE  GatewayType' /\ played' = played
<1>1. CASE phase[r] = "accepted"
  BY <1>1, GatewayWork DEF GatewayCancels
<1>2. CASE phase[r] # "accepted" /\ phase[r] = "working"
  <2>1. "cancelled" \in Gateway!Outcome
    BY DEF Gateway!Outcome
  <2> QED BY <1>2, <2>1, GatewayFinish DEF GatewayCancels
<1>3. CASE phase[r] # "accepted" /\ phase[r] # "working"
  BY <1>3 DEF GatewayCancels, gateway, GatewayType
<1> QED BY <1>1, <1>2, <1>3

LEMMA GatewayPlay ==
  ASSUME GatewayType, UNCHANGED sent, NEW r \in Requests, Gateway!Play(r)
  PROVE  /\ GatewayType'
         /\ ~played[r] /\ played' = [played EXCEPT ![r] = TRUE]
  BY SMT DEF GatewayType, Gateway!Play, Phases

LEMMA GatewayStutters ==
  ASSUME GatewayType, UNCHANGED <<gateway, sent>>
  PROVE  GatewayType' /\ played' = played
  BY DEF GatewayType, gateway

-----------------------------------------------------------------------------
(* finish: whatever the gateway did meanwhile, an idle worker is left.     *)
LEMMA FinishKeeps ==
  ASSUME IInv, NEW result \in Results, Finish(result), GatewayType',
         \A r \in Requests : played[r] => played'[r]
  PROVE  IInv'
  BY IdleKeeps DEF Finish, End

LEMMA FinishRefusedKeeps ==
  ASSUME IInv, FinishRefused, GatewayType', \A r \in Requests : played[r] => played'[r]
  PROVE  IInv'
<1>1. "CANCELLED" \in Results
  BY DEF Results
<1> QED BY <1>1, IdleKeeps DEF FinishRefused, End

(* A call that goes on without opening a stream.                           *)
LEMMA ContinueKeeps ==
  ASSUME IInv, NEW next \in Client, Continue(next), GatewayType',
         \A r \in Requests : played[r] => played'[r],
         Follows(next),
         next.pc = "stream" => dev.pc = "stream" /\ next.turn = dev.turn /\ next.started = dev.started
  PROVE  IInv'
<1>1. nvs' \in [req: Ids, turn: Ids]
  BY DEF IInv, DeviceType, Continue
<1> QED BY <1>1, ClientKeeps DEF Continue

LEMMA Outcomes == {"READY", "FAILED", "CANCELLED"} \subseteq Results
  BY DEF Results

(* A download that did not open: back to the loop, or the turn failed.     *)
LEMMA BackKeeps ==
  ASSUME IInv, dev.pc \in {"download", "stream"}, GatewayType',
         \A r \in Requests : played[r] => played'[r],
         Continue(Back) \/ Finish("FAILED")
  PROVE  IInv'
<1>1. Back \in Client /\ Back.pc = "client" /\ Follows(Back)
  BY DEF IInv, DeviceType, Followed, Follows, Back, Client
<1>2. CASE Continue(Back)
  BY <1>1, <1>2, ContinueKeeps
<1>3. CASE Finish("FAILED")
  BY <1>3, FinishKeeps, Outcomes
<1> QED BY <1>2, <1>3

(* Every step of the gateway, the recorder and their surroundings.         *)
LEMMA StepInv == IInv /\ [Next]_vars => IInv'
<1> SUFFICES ASSUME IInv, [Next]_vars PROVE IInv'
  OBVIOUS
<1>t. /\ GatewayType /\ dev \in Client /\ nvs \in [req: Ids, turn: Ids]
      /\ starts \in [Requests -> Nat] /\ Follows(dev)
  BY DEF IInv, DeviceType, Followed
<1>g. UNCHANGED <<gateway, sent>> => GatewayType' /\ played' = played
  BY <1>t, GatewayStutters
<1>1. CASE GatewayAccepts
  <2>1. GatewayType' /\ played' = played
    BY <1>1, <1>t, GatewayAccept DEF GatewayAccepts, GatewayType
  <2> QED BY <2>1, <1>1, <1>t, ClientKeeps DEF GatewayAccepts
<1>2. CASE GatewayWorks
  <2>1. {"ready", "failed", "interrupted"} \subseteq Gateway!Outcome
    BY DEF Gateway!Outcome
  <2>2. GatewayType' /\ played' = played
    BY <1>2, <1>t, <2>1, GatewayWork, GatewayFinish DEF GatewayWorks
  <2> QED BY <2>2, <1>2, <1>t, ClientKeeps DEF GatewayWorks
<1>3. CASE Record
  <2>1. PICK r \in Requests : /\ nvs' = [req |-> r, turn |-> NoRequest]
                              /\ dev' = [Idle("WAITING") EXCEPT !.pc = "upload", !.req = r]
    BY <1>3 DEF Record
  <2>2. GatewayType' /\ played' = played /\ starts' = starts
    BY <1>3, <1>g DEF Record
  <2>3. dev' \in Client /\ dev'.pc = "upload" /\ Follows(dev') /\ nvs' \in [req: Ids, turn: Ids]
    BY <2>1 DEF Idle, Client, Ids, Results, Follows
  <2> QED BY <2>2, <2>3, ClientKeeps
<1>4. CASE UploadSent
  <2>1. GatewayType' /\ played' = played
    BY <1>4, <1>t DEF UploadSent, GatewayType, gateway, Follows
  <2>2. dev' \in Client /\ dev'.pc = "closing" /\ Follows(dev')
    BY <1>4, <1>t DEF UploadSent, Follows, Client
  <2> QED BY <2>1, <2>2, <1>4, <1>t, ClientKeeps DEF UploadSent
<1>5. CASE UploadBreaks
  <2>1. GatewayType' /\ played' = played
    BY <1>5, <1>g DEF UploadBreaks
  <2> QED BY <2>1, <1>5, IdleKeeps, Outcomes DEF UploadBreaks
<1>6. CASE UploadAnswered
  <2>1. GatewayType' /\ played' = played
    BY <1>6, <1>g DEF UploadAnswered
  <2>2. dev' \in Client /\ dev'.pc = "client" /\ Follows(dev')
    BY <1>6, <1>t DEF UploadAnswered, Follows, Client, Ids
  <2>3. nvs' \in [req: Ids, turn: Ids]
    BY <1>6, <1>t DEF UploadAnswered, Follows, Ids
  <2> QED BY <2>1, <2>2, <2>3, <1>6, ClientKeeps DEF UploadAnswered
<1>7. CASE CancelCall
  <2>1. dev.pc = "client" /\ dev.turn \in Requests /\ UNCHANGED sent
    BY <1>7, <1>t DEF CancelCall, Cancelling, Ids, Client
  <2>2. GatewayType' /\ played' = played
    BY <2>1, <1>7, <1>t, <1>g, GatewayCancel DEF CancelCall
  <2>3. CASE Continue(dev)
    BY <2>1, <2>2, <2>3, <1>t, ContinueKeeps
  <2>4. CASE Finish("CANCELLED")
    BY <2>2, <2>4, FinishKeeps, Outcomes
  <2>5. CASE FinishRefused
    BY <2>2, <2>5, FinishRefusedKeeps
  <2> QED BY <2>3, <2>4, <2>5, <1>7 DEF CancelCall
<1>8. CASE Deadline
  BY <1>8, <1>g, FinishKeeps, Outcomes DEF Deadline
<1>9. CASE CallLost
  BY <1>9, <1>t, <1>g, ContinueKeeps DEF CallLost, Ticking
<1>10. CASE Lookup
  <2>1. GatewayType' /\ played' = played
    BY <1>10, <1>g DEF Lookup
  <2>2. CASE Finish("FAILED")
    BY <2>1, <2>2, FinishKeeps, Outcomes
  <2>3. CASE dev' = [dev EXCEPT !.turn = dev.req] /\ nvs' = [nvs EXCEPT !.turn = dev.req] /\ UNCHANGED starts
    <3>1. dev.pc = "client" /\ dev.req \in Requests
      BY <1>10, <1>t DEF Lookup, Ticking, Follows
    <3>2. dev' \in Client /\ dev'.pc = "client" /\ Follows(dev') /\ nvs' \in [req: Ids, turn: Ids]
      BY <2>3, <3>1, <1>t DEF Client, Ids, Follows
    <3> QED BY <2>1, <2>3, <3>2, ClientKeeps
  <2> QED BY <2>2, <2>3, <1>10 DEF Lookup
<1>11. CASE Poll
  <2>1. dev.pc = "client" /\ dev.turn \in Requests /\ dev.req \in Requests
    BY <1>11, <1>t DEF Poll, Ticking, Follows, Ids, Client
  <2>2. GatewayType' /\ played' = played
    BY <1>11, <1>g DEF Poll
  <2>3. CASE Finish("READY") \/ Finish("FAILED") \/ Finish("CANCELLED")
    BY <2>2, <2>3, FinishKeeps, Outcomes
  <2>4. ASSUME NEW early \in BOOLEAN, Continue(Fetch(early)) PROVE IInv'
    <3>1. Fetch(early) \in Client /\ Fetch(early).pc = "download" /\ Follows(Fetch(early))
      BY <2>1, <1>t DEF Fetch, Client, Follows
    <3> QED BY <2>2, <2>4, <3>1, ContinueKeeps
  <2>5. CASE Continue(dev)
    BY <2>1, <2>2, <2>5, <1>t, ContinueKeeps
  <2>6. \/ Finish("READY") \/ Finish("FAILED") \/ Finish("CANCELLED")
        \/ Continue(dev) \/ Continue(Fetch(TRUE)) \/ Continue(Fetch(FALSE))
    BY <1>11 DEF Poll, PollPending, PollReady, PollEnded
  <2> QED BY <2>3, <2>4, <2>5, <2>6
<1>12. CASE DownloadAgain
  <2> DEFINE next == [dev EXCEPT !.pc = "download"]
  <2>1. next \in Client /\ next.pc = "download" /\ Follows(next)
    BY <1>12, <1>t DEF DownloadAgain, Ticking, Follows, Client
  <2>2. Continue(next) /\ GatewayType' /\ played' = played
    BY <1>12, <1>g DEF DownloadAgain
  <2> HIDE DEF next
  <2> QED BY <2>1, <2>2, ContinueKeeps
<1>13. CASE DownloadLost \/ DownloadRefused
  <2>1. /\ GatewayType' /\ played' = played
        /\ dev.pc = "download" /\ (Continue(Back) \/ Finish("FAILED"))
    BY <1>13, <1>g DEF DownloadLost, DownloadRefused, NotOpened
  <2> QED BY <2>1, BackKeeps
<1>14. CASE DownloadOpened
  <2>1. dev.pc = "download" /\ dev.turn \in Requests /\ dev.req \in Requests
    BY <1>14, <1>t DEF DownloadOpened, Follows
  <2>2. GatewayType' /\ ~played[dev.turn] /\ played' = [played EXCEPT ![dev.turn] = TRUE]
    BY <2>1, <1>14, <1>t, GatewayPlay DEF DownloadOpened
  <2>3. \A r \in Requests : played[r] => played'[r]
    BY <2>1, <2>2, <1>t DEF GatewayType
  <2>4. CASE NotOpened
    BY <2>1, <2>2, <2>3, <2>4, BackKeeps DEF NotOpened
  <2>5. CASE Continue([dev EXCEPT !.pc = "stream"])
    <3>1. /\ dev' \in Client /\ dev'.pc = "stream" /\ dev'.turn = dev.turn /\ Follows(dev')
          /\ nvs' = nvs /\ starts' = starts
      BY <2>1, <2>5, <1>t DEF Continue, Client, Follows
    <3>2. starts[dev.turn] = 0 /\ StartsAreClaimed
      BY <2>1, <2>2, <1>t DEF IInv, StartsAreClaimed
    <3>3. OpenStream' /\ StartsAreClaimed'
      BY <2>1, <2>2, <2>3, <3>1, <3>2, <1>t DEF OpenStream, StartsAreClaimed, GatewayType
    <3> QED BY <2>2, <3>1, <3>3, <1>t DEF IInv, DeviceType, Followed
  <2> QED BY <2>4, <2>5, <1>14 DEF DownloadOpened
<1>15. CASE StreamStarts
  <2>1. dev.pc = "stream" /\ dev.turn \in Requests /\ played[dev.turn] /\ starts[dev.turn] = 0
    BY <1>15, <1>t DEF StreamStarts, Follows, IInv, OpenStream
  <2>a. dev' = [dev EXCEPT !.started = TRUE] /\ nvs' = nvs /\ starts' = [starts EXCEPT ![dev.turn] = @ + 1]
    BY <1>15 DEF StreamStarts
  <2>b. starts' = [starts EXCEPT ![dev.turn] = 1]
    BY <2>1, <2>a, <1>t
  <2>2. dev' \in Client /\ dev'.started /\ dev'.turn = dev.turn /\ Follows(dev')
    BY <2>1, <2>a, <1>t DEF Client, Follows
  <2>3. GatewayType' /\ played' = played
    BY <1>15, <1>g DEF StreamStarts
  <2>4. starts' \in [Requests -> Nat]
    BY <2>1, <2>b, <1>t
  <2>5. StartsAreClaimed' /\ OpenStream'
    BY <2>1, <2>2, <2>3, <2>b, <1>t DEF IInv, StartsAreClaimed, OpenStream
  <2> QED BY <2>a, <2>2, <2>3, <2>4, <2>5, <1>t DEF IInv, DeviceType, Followed
<1>16. CASE StreamEnds
  <2>1. GatewayType' /\ played' = played
    BY <1>16, <1>g DEF StreamEnds
  <2> DEFINE next == [dev EXCEPT !.pc = "client", !.pending = FALSE, !.downloaded = TRUE]
  <2>2. next \in Client /\ next.pc = "client" /\ Follows(next)
    BY <1>16, <1>t DEF StreamEnds, Client, Follows
  <2>3. Continue(next) \/ Finish("READY")
    BY <1>16 DEF StreamEnds
  <2> HIDE DEF next
  <2> QED BY <2>1, <2>2, <2>3, ContinueKeeps, FinishKeeps, Outcomes
<1>17. CASE StreamBreaks
  <2>1. /\ GatewayType' /\ played' = played
        /\ dev.pc = "stream" /\ (Continue(Back) \/ Finish("FAILED"))
    BY <1>17, <1>g DEF StreamBreaks
  <2> QED BY <2>1, BackKeeps
<1>18. CASE Cancel
  <2>1. GatewayType' /\ played' = played
    BY <1>18, <1>g DEF Cancel
  <2>2. /\ dev' \in Client /\ Follows(dev') /\ nvs' = nvs /\ starts' = starts
        /\ dev'.pc = dev.pc /\ dev'.turn = dev.turn /\ dev'.started = dev.started
    BY <1>18, <1>t DEF Cancel, Client, Follows
  <2> QED BY <2>1, <2>2, <1>t, ClientKeeps
<1>19. CASE Expire
  <2>1. GatewayType' /\ played' = played
    BY <1>19, <1>g DEF Expire
  <2>2. /\ dev' \in Client /\ Follows(dev') /\ nvs' = nvs /\ starts' = starts
        /\ dev'.pc = dev.pc /\ dev'.turn = dev.turn /\ dev'.started = dev.started
    BY <1>19, <1>t DEF Expire, Client, Follows
  <2> QED BY <2>1, <2>2, <1>t, ClientKeeps
<1>20. CASE Reboot
  <2>1. GatewayType' /\ played' = played /\ nvs' = nvs /\ starts' = starts
    BY <1>20, <1>g DEF Reboot
  <2>2. CASE nvs.req = NoRequest
    BY <2>1, <2>2, <1>20, IdleKeeps, Outcomes DEF Reboot
  <2>3. CASE nvs.req # NoRequest
    <3>1. dev' \in Client /\ dev'.pc = "client" /\ Follows(dev')
      BY <2>3, <1>20, <1>t DEF Reboot, Idle, Client, Follows, Results, Ids
    <3> QED BY <2>1, <3>1, <1>t, ClientKeeps
  <2> QED BY <2>2, <2>3
<1>21. CASE UNCHANGED vars
  <2>1. GatewayType' /\ played' = played /\ dev' = dev /\ nvs' = nvs /\ starts' = starts
    BY <1>21, <1>g DEF vars, gateway
  <2> QED BY <2>1, <1>t, ClientKeeps
<1> QED BY <1>1, <1>2, <1>3, <1>4, <1>5, <1>6, <1>7, <1>8, <1>9, <1>10, <1>11, <1>12, <1>13, <1>14,
           <1>15, <1>16, <1>17, <1>18, <1>19, <1>20, <1>21 DEF Next, Worker

-----------------------------------------------------------------------------
(* The inductive invariant of every behaviour.                             *)
THEOREM Invariance == Spec => []IInv
  BY InitInv, StepInv, PTL DEF Spec

LEMMA TypeIs == IInv => TypeOK
  BY SMT DEF IInv, GatewayType, DeviceType, StartsAreClaimed, TypeOK, Phases

(* The state of the recorder and the gateway keeps its type: each request  *)
(* is in a phase of the service, each saved id is a request's.             *)
THEOREM TypeCorrect == Spec => []TypeOK
<1>1. IInv => TypeOK
  BY TypeIs
<1> QED BY <1>1, Invariance, PTL

(* A reply starts to play at most once, whatever is lost, retried,         *)
(* restarted or not cleared: the gateway's claim is never taken back.      *)
THEOREM AtMostOneHearing == Spec => []HeardOnce
<1>1. IInv => HeardOnce
  BY DEF IInv, StartsAreClaimed, HeardOnce
<1> QED BY <1>1, Invariance, PTL

-----------------------------------------------------------------------------
(* The ids belong together: flash has the request that is worked on, and   *)
(* the turn is the request's, here as in flash.                            *)
Asked ==
  /\ dev.pc # "off" => nvs.req = dev.req
  /\ dev.turn \in {NoRequest, dev.req}
  /\ nvs.turn \in {NoRequest, nvs.req}
  /\ dev.pc \in {"upload", "closing"} => dev.turn = NoRequest

(* What the client takes for heard was heard.                              *)
HeardSoFar ==
  dev.started \/ dev.downloaded => dev.turn \in Requests /\ starts[dev.turn] = 1

LEMMA AskedInit == Init => Asked /\ HeardSoFar
  BY SMT DEF Init, Asked, HeardSoFar, NoIds, Idle

LEMMA FinishAsked ==
  ASSUME NEW result, Finish(result), Asked
  PROVE  Asked' /\ HeardSoFar'
  BY SMT DEF Finish, End, Asked, HeardSoFar, Idle, NoIds

LEMMA FinishRefusedAsked ==
  ASSUME FinishRefused, Asked
  PROVE  Asked' /\ HeardSoFar'
  BY SMT DEF FinishRefused, End, Asked, HeardSoFar, Idle, NoIds

(* A step that moves the client on with the ids it has.                    *)
LEMMA SameIds ==
  ASSUME IInv, Asked, HeardSoFar, dev' \in Client, dev'.req = dev.req, dev'.turn = dev.turn,
         dev.pc # "off" \/ dev'.pc = "off", dev'.pc \in {"upload", "closing"} => dev.pc \in {"upload", "closing"},
         nvs' = nvs, starts' = starts,
         dev'.started => dev.started, dev'.downloaded => dev.downloaded \/ dev.started
  PROVE  Asked' /\ HeardSoFar'
  BY SMT DEF Asked, HeardSoFar

LEMMA BackAsked ==
  ASSUME IInv, Asked, HeardSoFar, dev.pc \in {"download", "stream"},
         Continue(Back) \/ Finish("FAILED")
  PROVE  Asked' /\ HeardSoFar'
<1>1. CASE Continue(Back)
  <2>1. dev' \in Client /\ dev'.pc = "client" /\ dev' = [dev EXCEPT !.pc = "client", !.pending = dev.pending]
    BY <1>1 DEF Continue, Back, IInv, DeviceType, Client
  <2> QED BY <1>1, <2>1, SameIds DEF Continue, IInv, DeviceType, Client
<1>2. CASE Finish("FAILED")
  BY <1>2, FinishAsked
<1> QED BY <1>1, <1>2

LEMMA AskedStep == IInv /\ Asked /\ HeardSoFar /\ [Next]_vars => Asked' /\ HeardSoFar'
<1> SUFFICES ASSUME IInv, Asked, HeardSoFar, [Next]_vars PROVE Asked' /\ HeardSoFar'
  OBVIOUS
<1>t. dev \in Client /\ nvs \in [req: Ids, turn: Ids] /\ starts \in [Requests -> Nat] /\ Follows(dev)
  BY DEF IInv, DeviceType, Followed
<1>1. CASE GatewayAccepts \/ GatewayWorks \/ UNCHANGED vars
  BY <1>1, <1>t DEF GatewayAccepts, GatewayWorks, vars, Asked, HeardSoFar
<1>2. CASE Record
  BY <1>2, SMT DEF Record, Asked, HeardSoFar, Idle
<1>3. CASE UploadSent
  BY <1>3, <1>t, SMT DEF UploadSent, Asked, HeardSoFar, Client
<1>4. CASE UploadBreaks
  BY <1>4, SMT DEF UploadBreaks, Asked, HeardSoFar, Idle
<1>5. CASE UploadAnswered
  BY <1>5, <1>t, NoRequestAssumption, SMT DEF UploadAnswered, Asked, HeardSoFar, Client, Ids
<1>6. CASE CancelCall
  <2>1. Continue(dev) \/ Finish("CANCELLED") \/ FinishRefused
    BY <1>6 DEF CancelCall
  <2>2. CASE Continue(dev)
    BY <2>2 DEF Continue, Asked, HeardSoFar
  <2> QED BY <2>1, <2>2, FinishAsked, FinishRefusedAsked
<1>7. CASE Deadline
  BY <1>7, FinishAsked DEF Deadline
<1>8. CASE CallLost
  BY <1>8 DEF CallLost, Continue, Asked, HeardSoFar
<1>9. CASE Lookup
  <2>1. CASE Finish("FAILED")
    BY <2>1, FinishAsked
  <2>2. CASE dev' = [dev EXCEPT !.turn = dev.req] /\ nvs' = [nvs EXCEPT !.turn = dev.req] /\ UNCHANGED starts
    BY <2>2, <1>9, <1>t, NoRequestAssumption, SMT DEF Lookup, Ticking, Asked, HeardSoFar, Client
  <2> QED BY <2>1, <2>2, <1>9 DEF Lookup
<1>10. CASE Poll
  <2>1. dev.pc = "client"
    BY <1>10 DEF Poll, Ticking
  <2>2. \/ Finish("READY") \/ Finish("FAILED") \/ Finish("CANCELLED")
        \/ Continue(dev) \/ \E early \in BOOLEAN : Continue(Fetch(early))
    BY <1>10 DEF Poll, PollPending, PollReady, PollEnded
  <2>3. CASE Finish("READY") \/ Finish("FAILED") \/ Finish("CANCELLED")
    BY <2>3, FinishAsked
  <2>4. CASE Continue(dev)
    BY <2>4 DEF Continue, Asked, HeardSoFar
  <2>5. ASSUME NEW early \in BOOLEAN, Continue(Fetch(early)) PROVE Asked' /\ HeardSoFar'
    <3>1. /\ dev' \in Client /\ dev'.pc = "download" /\ dev'.req = dev.req /\ dev'.turn = dev.turn
          /\ dev'.started = dev.started /\ dev'.downloaded = dev.downloaded /\ nvs' = nvs /\ starts' = starts
      BY <2>5, <1>t DEF Continue, Fetch, Client
    <3> QED BY <2>1, <3>1, SameIds
  <2> QED BY <2>2, <2>3, <2>4, <2>5
<1>11. CASE DownloadAgain
  <2>1. /\ dev.pc = "client" /\ dev' \in Client /\ dev'.pc = "download" /\ dev'.req = dev.req /\ dev'.turn = dev.turn
        /\ dev'.started = dev.started /\ dev'.downloaded = dev.downloaded /\ nvs' = nvs /\ starts' = starts
    BY <1>11, <1>t DEF DownloadAgain, Ticking, Continue, Client
  <2> QED BY <2>1, SameIds
<1>12. CASE DownloadLost \/ DownloadRefused
  <2>1. dev.pc = "download" /\ (Continue(Back) \/ Finish("FAILED"))
    BY <1>12 DEF DownloadLost, DownloadRefused, NotOpened
  <2> QED BY <2>1, BackAsked
<1>13. CASE DownloadOpened
  <2>1. CASE NotOpened
    BY <2>1, <1>13, BackAsked DEF NotOpened, DownloadOpened
  <2>2. CASE Continue([dev EXCEPT !.pc = "stream"])
    <3>1. /\ dev.pc = "download" /\ dev' \in Client /\ dev'.pc = "stream" /\ dev'.req = dev.req /\ dev'.turn = dev.turn
          /\ dev'.started = dev.started /\ dev'.downloaded = dev.downloaded /\ nvs' = nvs /\ starts' = starts
      BY <2>2, <1>13, <1>t DEF DownloadOpened, Continue, Client
    <3> QED BY <3>1, SameIds
  <2> QED BY <2>1, <2>2, <1>13 DEF DownloadOpened
<1>14. CASE StreamStarts
  <2>1. dev.pc = "stream" /\ dev.turn \in Requests /\ starts[dev.turn] = 0
    BY <1>14, <1>t DEF StreamStarts, Follows, IInv, OpenStream
  <2>2. dev' = [dev EXCEPT !.started = TRUE] /\ nvs' = nvs /\ starts' = [starts EXCEPT ![dev.turn] = @ + 1]
    BY <1>14 DEF StreamStarts
  <2>3. starts'[dev.turn] = 1
    BY <2>1, <2>2, <1>t
  <2> QED BY <2>1, <2>2, <2>3, <1>t DEF Asked, HeardSoFar, Client
<1>15. CASE StreamEnds
  <2>1. CASE Finish("READY")
    BY <2>1, FinishAsked
  <2>2. CASE Continue([dev EXCEPT !.pc = "client", !.pending = FALSE, !.downloaded = TRUE])
    <3>1. /\ dev.pc = "stream" /\ dev.started /\ dev' \in Client /\ dev'.pc = "client" /\ dev'.req = dev.req
          /\ dev'.turn = dev.turn /\ dev'.started = dev.started /\ nvs' = nvs /\ starts' = starts
      BY <2>2, <1>15, <1>t DEF StreamEnds, Continue, Client
    <3> QED BY <3>1, SameIds
  <2> QED BY <2>1, <2>2, <1>15 DEF StreamEnds
<1>16. CASE StreamBreaks
  <2>1. dev.pc = "stream" /\ (Continue(Back) \/ Finish("FAILED"))
    BY <1>16 DEF StreamBreaks
  <2> QED BY <2>1, BackAsked
<1>17. CASE Cancel \/ Expire
  <2>1. /\ dev' \in Client /\ dev'.req = dev.req /\ dev'.turn = dev.turn /\ dev'.pc = dev.pc
        /\ dev'.started = dev.started /\ dev'.downloaded = dev.downloaded /\ nvs' = nvs /\ starts' = starts
    BY <1>17, <1>t DEF Cancel, Expire, Client
  <2> QED BY <2>1, SameIds
<1>18. CASE Reboot
  BY <1>18, <1>t, SMT DEF Reboot, Asked, HeardSoFar, Idle, Ids
<1> QED BY <1>1, <1>2, <1>3, <1>4, <1>5, <1>6, <1>7, <1>8, <1>9, <1>10, <1>11, <1>12, <1>13, <1>14,
           <1>15, <1>16, <1>17, <1>18 DEF Next, Worker

(* The ids in flash and in the client belong to one recording in every     *)
(* behaviour.                                                              *)
THEOREM IdsBelongTogether == Spec => [](IInv /\ Asked /\ HeardSoFar)
<1>1. Init => IInv /\ Asked /\ HeardSoFar
  BY InitInv, AskedInit
<1>2. IInv /\ Asked /\ HeardSoFar /\ [Next]_vars => (IInv /\ Asked /\ HeardSoFar)'
  BY StepInv, AskedStep
<1> QED BY <1>1, <1>2, PTL DEF Spec

-----------------------------------------------------------------------------
(* What a worker leaves behind when it ends.                               *)
Ended(outcome) == dev.pc # "off" /\ dev'.pc = "off" /\ dev'.result = outcome

LEMMA FinishSays ==
  ASSUME NEW result, Finish(result)
  PROVE  dev'.result = result
  BY DEF Finish, End, Idle

LEMMA FinishRefusedSays ==
  ASSUME FinishRefused
  PROVE  dev'.result = "CANCELLED" /\ dev'.refused
  BY DEF FinishRefused, End, Idle

(* A step that goes on does not end the worker.                            *)
LEMMA GoesOn ==
  ASSUME NEW next \in Client, next.pc # "off", Continue(next)
  PROVE  dev'.pc # "off"
  BY DEF Continue

(* The steps by which a worker ends other than as failed.                  *)
LEMMA EndsByFinish ==
  ASSUME IInv, [Next]_vars, dev.pc # "off", dev'.pc = "off"
  PROVE  \/ dev'.result = "FAILED"
         \/ CancelCall /\ (Finish("CANCELLED") \/ FinishRefused)
         \/ Poll
         \/ StreamEnds /\ Finish("READY")
<1>t. dev \in Client
  BY DEF IInv, DeviceType
<1>1. CASE GatewayAccepts \/ GatewayWorks \/ UNCHANGED vars
  BY <1>1 DEF GatewayAccepts, GatewayWorks, vars
<1>2. CASE Record \/ UploadSent \/ UploadBreaks \/ UploadAnswered \/ Cancel \/ Expire \/ Reboot
  <2>1. CASE Record \/ UploadSent \/ UploadAnswered \/ Cancel \/ Expire
    <3>1. dev'.pc # "off"
      BY <2>1, <1>t DEF Record, UploadSent, UploadAnswered, Cancel, Expire, Idle, Client
    <3> QED BY <3>1
  <2>2. CASE UploadBreaks \/ Reboot
    <3>1. CASE dev' = Idle("FAILED")
      BY <3>1 DEF Idle
    <3>2. CASE dev' = [Idle("WAITING") EXCEPT !.pc = "client", !.req = nvs.req, !.turn = nvs.turn]
      BY <3>2 DEF Idle
    <3> QED BY <2>2, <3>1, <3>2 DEF UploadBreaks, Reboot
  <2> QED BY <1>2, <2>1, <2>2
<1>3. CASE CancelCall
  <2>1. ~Continue(dev)
    BY <1>t, GoesOn
  <2> QED BY <1>3, <2>1 DEF CancelCall
<1>4. CASE Deadline \/ Lookup
  <2>1. CASE Finish("FAILED")
    BY <2>1, FinishSays
  <2>2. CASE dev' = [dev EXCEPT !.turn = dev.req]
    BY <2>2, <1>t DEF Client
  <2> QED BY <1>4, <2>1, <2>2 DEF Deadline, Lookup
<1>5. CASE CallLost \/ DownloadAgain
  <2>1. ~Continue(dev)
    BY <1>t, GoesOn
  <2>2. ~Continue([dev EXCEPT !.pc = "download"])
    BY <1>t, GoesOn DEF Client
  <2> QED BY <1>5, <2>1, <2>2 DEF CallLost, DownloadAgain
<1>6. CASE DownloadLost \/ DownloadRefused \/ DownloadOpened \/ StreamBreaks
  <2>1. ~Continue(Back) /\ ~Continue([dev EXCEPT !.pc = "stream"])
    BY <1>t, GoesOn DEF Client, Back
  <2>2. Finish("FAILED")
    BY <1>6, <2>1 DEF DownloadLost, DownloadRefused, DownloadOpened, StreamBreaks, NotOpened
  <2> QED BY <2>2, FinishSays
<1>7. CASE StreamStarts \/ StreamEnds
  <2>1. ~StreamStarts
    BY <1>t DEF StreamStarts, Client
  <2>2. ~Continue([dev EXCEPT !.pc = "client", !.pending = FALSE, !.downloaded = TRUE])
    BY <1>t, GoesOn DEF Client
  <2> QED BY <1>7, <2>1, <2>2 DEF StreamEnds
<1> QED BY <1>1, <1>2, <1>3, <1>4, <1>5, <1>6, <1>7 DEF Next, Worker

(* What a poll that ends the turn has read.                                *)
LEMMA PollSays ==
  ASSUME IInv, Poll, dev'.pc = "off"
  PROVE  /\ phase' = phase
         /\ dev'.result = "READY" => phase[dev.turn] = "ready" /\ dev.downloaded
         /\ dev'.result = "CANCELLED" => phase[dev.turn] = "cancelled"
<1>t. dev \in Client /\ dev.pc = "client"
  BY DEF IInv, DeviceType, Poll, Ticking
<1>1. ~Continue(dev)
  BY <1>t, GoesOn
<1>2. ~Continue(Fetch(TRUE)) /\ ~Continue(Fetch(FALSE))
  <2>1. \A early \in BOOLEAN : Fetch(early) \in Client /\ Fetch(early).pc = "download"
    BY <1>t DEF Fetch, Client
  <2> QED BY <2>1, GoesOn
<1>3. CASE Finish("FAILED")
  BY <1>3, FinishSays DEF Poll, gateway
<1>4. CASE PollPending
  BY <1>4, <1>1, <1>2 DEF PollPending
<1>5. CASE PollReady
  <2>1. phase[dev.turn] = "ready" /\ dev.downloaded /\ Finish("READY")
    BY <1>5, <1>2 DEF PollReady
  <2> QED BY <2>1, FinishSays DEF Poll, gateway
<1>6. CASE phase[dev.turn] = "cancelled" /\ Finish("CANCELLED")
  BY <1>6, FinishSays DEF Poll, gateway
<1> QED BY <1>3, <1>4, <1>5, <1>6 DEF Poll, PollEnded

(* READY is said of a turn that is ready and was heard.                    *)
LEMMA ReadyStep ==
  ASSUME IInv, HeardSoFar, [Next]_vars, Ended("READY")
  PROVE  phase[dev.turn] = "ready" /\ starts[dev.turn] = 1
<1>1. dev'.result = "READY" /\ dev'.result # "FAILED"
  BY DEF Ended
<1>2. CASE Poll
  BY <1>1, <1>2, PollSays DEF Ended, HeardSoFar
<1>3. CASE StreamEnds /\ Finish("READY")
  BY <1>3 DEF StreamEnds, HeardSoFar
<1>4. ~Finish("CANCELLED") /\ ~FinishRefused
  BY <1>1, FinishSays, FinishRefusedSays
<1> QED BY <1>1, <1>2, <1>3, <1>4, EndsByFinish DEF Ended

(* CANCELLED is said of a turn that nobody works on any more, unless the   *)
(* gateway refused the cancellation.                                       *)
LEMMA CancelledStep ==
  ASSUME IInv, [Next]_vars, Ended("CANCELLED"), ~dev'.refused
  PROVE  phase'[dev.turn] \notin {"accepted", "working"}
<1>t. GatewayType /\ dev \in Client
  BY DEF IInv, DeviceType
<1>1. dev'.result = "CANCELLED" /\ dev'.result # "FAILED"
  BY DEF Ended
<1>r. ~FinishRefused
  BY FinishRefusedSays
<1>2. CASE CancelCall /\ Finish("CANCELLED")
  <2>1. dev.turn \in Requests
    BY <1>2, <1>t DEF CancelCall, Cancelling, Client, Ids
  <2>2. ~Continue(dev)
    BY <1>t, GoesOn DEF Ended
  <2>3. GatewayCancels(dev.turn)
    BY <1>2, <2>2, <1>r DEF CancelCall
  <2> QED BY <2>1, <2>3, <1>t
       DEF GatewayCancels, GatewayType, Gateway!CancelAccepted, Gateway!Finish, gateway
<1>3. CASE Poll
  <2>1. phase' = phase /\ phase[dev.turn] = "cancelled"
    BY <1>1, <1>3, PollSays DEF Ended
  <2> QED BY <2>1
<1>4. ~Finish("READY")
  BY <1>1, FinishSays
<1> QED BY <1>1, <1>2, <1>3, <1>4, <1>r, EndsByFinish DEF Ended

(* Only the first audio of a download starts a reply, and flash has its    *)
(* request.                                                                *)
LEMMA AskedStarts ==
  ASSUME IInv, Asked, [Next]_vars, NEW r \in Requests, starts'[r] # starts[r]
  PROVE  nvs.req = r
<1>1. CASE StreamStarts
  <2>1. dev.turn = r
    BY <1>1 DEF StreamStarts, IInv, DeviceType
  <2>2. dev.pc = "stream"
    BY <1>1 DEF StreamStarts
  <2> QED BY <2>1, <2>2, NoRequestAssumption DEF Asked
<1>2. CASE Worker /\ ~StreamStarts
  BY <1>2 DEF Worker, UploadSent, UploadBreaks, UploadAnswered, CancelCall, Deadline, CallLost, Lookup,
     Poll, PollPending, PollReady, PollEnded, DownloadAgain, DownloadLost, DownloadRefused, DownloadOpened,
     NotOpened, StreamEnds, StreamBreaks, Finish, FinishRefused, End, Continue
<1> QED BY <1>1, <1>2 DEF Next, GatewayAccepts, GatewayWorks, Record, Cancel, Expire, Reboot, vars

(* How the recorder says a turn ended, and what it plays, is what the      *)
(* gateway has of this recording: no reply is called ready that was not    *)
(* heard, no turn cancelled that is still worked on, but where the gateway *)
(* refused to cancel it, and what is heard answers the recording made last.*)
THEOREM Agreement == Spec => OutcomesAgree
<1> DEFINE AllInv == IInv /\ Asked /\ HeardSoFar
           Ready == dev.pc # "off" /\ dev'.pc = "off" /\ dev'.result = "READY"
                      => phase[dev.turn] = "ready" /\ starts[dev.turn] = 1
           Cancelled == dev.pc # "off" /\ dev'.pc = "off" /\ dev'.result = "CANCELLED" /\ ~dev'.refused
                          => phase'[dev.turn] \notin {"accepted", "working"}
           Heard == \A r \in Requests : starts'[r] # starts[r] => nvs.req = r
<1>1. AllInv /\ [Next]_vars => Ready
  BY ReadyStep DEF Ended
<1>2. AllInv /\ [Next]_vars => Cancelled
  BY CancelledStep DEF Ended
<1>3. AllInv /\ [Next]_vars => Heard
  BY AskedStarts
<1>4. Spec => []AllInv
  BY IdsBelongTogether
<1> HIDE DEF AllInv, Ready, Cancelled, Heard
<1>5. Spec => [][Ready]_vars /\ [][Cancelled]_vars /\ [][Heard]_vars
  BY <1>1, <1>2, <1>3, <1>4, PTL DEF Spec
<1> QED BY <1>5 DEF OutcomesAgree, ReadyIsHeard, CancelledIsOver, HeardIsAsked, Ready, Cancelled, Heard
-----------------------------------------------------------------------------
(* The codec.  What a call may come to is said of every outcome at once:   *)
(* its type, that the amplifier stays off an open microphone, and what an  *)
(* outcome without a failed access has done.                               *)
CodecFields == {"handles", "mic", "spk", "amp", "capture", "playback", "ready"}
Codecs == [CodecFields -> BOOLEAN]
CodecOutcomes == [codec : Codecs, ok : BOOLEAN, bad : Nat]
Silenced(c) == c.mic => ~c.amp

CodecInv ==
  /\ codec \in Codecs /\ unit \in {"idle", "recording", "speaking", "stopping"}
  /\ faults \in 0 .. CodecFaults /\ clean \in BOOLEAN
  /\ Silenced(codec)
  /\ codec.handles = codec.ready
  /\ Codec!HearsAgain

LEMMA CodecFieldsAre == DOMAIN Codec!Off = CodecFields
  BY DEF Codec!Off, CodecFields

LEMMA OffIs ==
  /\ Codec!Off \in Codecs /\ ~Codec!Off.handles /\ ~Codec!Off.ready /\ ~Codec!Off.mic
  /\ Codec!Off.handles = Codec!Off.ready
<1>1. Codec!Off = [f \in CodecFields |-> Codec!Off[f]]
  BY DEF Codec!Off, CodecFields
<1>2. /\ Codec!Off.handles = FALSE /\ Codec!Off.mic = FALSE /\ Codec!Off.spk = FALSE /\ Codec!Off.amp = FALSE
      /\ Codec!Off.capture = FALSE /\ Codec!Off.playback = FALSE /\ Codec!Off.ready = FALSE
  BY DEF Codec!Off
<1>3. \A f \in CodecFields : Codec!Off[f] \in BOOLEAN
  BY <1>2 DEF CodecFields
<1>4. Codec!Off \in Codecs
  BY <1>1, <1>3 DEF Codecs
<1> QED BY <1>2, <1>4

LEMMA OutcomesAre ==
  ASSUME NEW c \in Codecs
  PROVE  /\ Codec!Did(c) \in CodecOutcomes /\ Codec!Did(c).codec = c
         /\ Codec!Did(c).ok = TRUE /\ Codec!Did(c).bad = 0
         /\ Codec!Failed(c) \in CodecOutcomes /\ Codec!Failed(c).codec = c
         /\ Codec!Failed(c).ok = FALSE /\ Codec!Failed(c).bad = 1
  BY DEF Codec!Did, Codec!Failed, CodecOutcomes

(* speaker_enable does it or fails, and touches nothing else.              *)
LEMMA AmplifierIs ==
  ASSUME NEW c \in Codecs, NEW on \in BOOLEAN, NEW r \in Codec!Amplifier(c, on)
  PROVE  /\ r \in CodecOutcomes
         /\ \/ r.ok /\ r.bad = 0 /\ r.codec = [c EXCEPT !.amp = on]
            \/ ~r.ok /\ r.bad = 1 /\ r.codec = c
<1>1. [c EXCEPT !.amp = on] \in Codecs
  BY DEF Codecs, CodecFields
<1>2. r = Codec!Did([c EXCEPT !.amp = on]) \/ r = Codec!Failed(c)
  BY DEF Codec!Amplifier
<1> QED BY <1>1, <1>2, OutcomesAre

(* What open_microphone leaves alone, and that it worked when it says so.  *)
LEMMA OpenMicrophoneIs ==
  ASSUME NEW c \in Codecs, NEW r \in Codec!OpenMicrophone(c)
  PROVE  /\ r \in CodecOutcomes /\ r.bad \in {0, 1}
         /\ r.codec.handles = c.handles /\ r.codec.ready = c.ready
         /\ r.codec.playback = c.playback
         /\ Silenced(c) => Silenced(r.codec)
         /\ r.ok => r.bad = 0 /\ r.codec.mic
         /\ ~r.ok => r.bad = 1
<1>1. PICK a \in Codec!Amplifier(c, FALSE) :
        r \in IF a.ok THEN {Codec!Did([a.codec EXCEPT !.mic = TRUE]), Codec!Failed(a.codec),
                            Codec!Failed([a.codec EXCEPT !.mic = TRUE])}
                      ELSE {a}
  BY DEF Codec!OpenMicrophone
<1>2. CASE a.ok
  <2>1. a.codec = [c EXCEPT !.amp = FALSE]
    BY <1>1, <1>2, AmplifierIs
  <2>2. /\ a.codec \in Codecs /\ a.codec.amp = FALSE
        /\ a.codec.handles = c.handles /\ a.codec.ready = c.ready /\ a.codec.playback = c.playback
    BY <2>1 DEF Codecs, CodecFields
  <2> DEFINE open == [a.codec EXCEPT !.mic = TRUE]
  <2>3. /\ open \in Codecs /\ open.amp = FALSE /\ open.mic = TRUE
        /\ open.handles = c.handles /\ open.ready = c.ready /\ open.playback = c.playback
    BY <2>2 DEF Codecs, CodecFields
  <2> HIDE DEF open
  <2>4. r \in {Codec!Did(open), Codec!Failed(a.codec), Codec!Failed(open)}
    BY <1>1, <1>2 DEF open
  <2>5. CASE r = Codec!Did(open)
    BY <2>3, <2>5, OutcomesAre DEF Silenced
  <2>6. CASE r = Codec!Failed(a.codec)
    BY <2>2, <2>6, OutcomesAre DEF Silenced
  <2>7. CASE r = Codec!Failed(open)
    BY <2>3, <2>7, OutcomesAre DEF Silenced
  <2> QED BY <2>4, <2>5, <2>6, <2>7
<1>3. CASE ~a.ok
  <2>1. a \in CodecOutcomes /\ a.bad = 1 /\ a.codec = c
    BY <1>1, <1>3, AmplifierIs
  <2>2. r = a
    BY <1>1, <1>3
  <2> QED BY <2>1, <2>2, <1>3 DEF CodecOutcomes
<1> QED BY <1>2, <1>3

(* audio_capture_deinit gives everything up but the playback state.        *)
LEMMA DeinitIs ==
  ASSUME NEW c \in Codecs, NEW r \in Codec!Deinit(c)
  PROVE  /\ r \in CodecOutcomes /\ r.ok /\ r.bad \in {0, 1}
         /\ ~r.codec.handles /\ r.codec.ready = c.ready /\ r.codec.playback = c.playback
         /\ Silenced(r.codec)
<1>1. PICK a \in Codec!Amplifier(c, FALSE) :
        r = [codec |-> [a.codec EXCEPT !.handles = FALSE, !.mic = FALSE, !.spk = FALSE, !.capture = FALSE],
             ok |-> TRUE, bad |-> a.bad]
  BY DEF Codec!Deinit
<1>2. a.codec \in Codecs /\ a.codec.ready = c.ready /\ a.codec.playback = c.playback /\ a.bad \in {0, 1}
  <2>1. /\ a \in CodecOutcomes /\ a.bad \in {0, 1}
        /\ a.codec = [c EXCEPT !.amp = FALSE] \/ a.codec = c
    BY <1>1, AmplifierIs
  <2> QED BY <2>1 DEF CodecOutcomes, Codecs, CodecFields
<1>3. /\ r.codec = [a.codec EXCEPT !.handles = FALSE, !.mic = FALSE, !.spk = FALSE, !.capture = FALSE]
      /\ r.ok = TRUE /\ r.bad = a.bad
  BY <1>1
<1>4. /\ r.codec \in Codecs /\ ~r.codec.handles /\ ~r.codec.mic
      /\ r.codec.ready = c.ready /\ r.codec.playback = c.playback
  <2> DEFINE b == a.codec
  <2>1. b \in Codecs /\ b.ready = c.ready /\ b.playback = c.playback
    BY <1>2
  <2>2. r.codec = [b EXCEPT !.handles = FALSE, !.mic = FALSE, !.spk = FALSE, !.capture = FALSE]
    BY <1>3
  <2> HIDE DEF b
  <2>3. r.codec \in Codecs
    BY <2>1, <2>2 DEF Codecs, CodecFields
  <2>4. ~r.codec.handles /\ ~r.codec.mic /\ r.codec.ready = b.ready /\ r.codec.playback = b.playback
    BY <2>1, <2>2 DEF Codecs, CodecFields
  <2> QED BY <2>1, <2>3, <2>4
<1>5. r \in CodecOutcomes
  BY <1>1, <1>2, <1>3, <1>4 DEF CodecOutcomes
<1> QED BY <1>2, <1>3, <1>4, <1>5 DEF Silenced

(* audio_capture_init opens the microphone of a codec that has no handles, *)
(* or leaves none.                                                         *)
LEMMA CaptureInitIs ==
  ASSUME NEW c \in Codecs, NEW r \in Codec!CaptureInit(c)
  PROVE  /\ r \in CodecOutcomes
         /\ r.codec.handles = r.ok /\ r.codec.ready = c.ready /\ r.codec.playback = c.playback
         /\ Silenced(c) => Silenced(r.codec)
         /\ r.bad = 0 => r.ok /\ (~c.handles => r.codec.mic)
<1>1. CASE c.handles
  <2>1. r = Codec!Did(c)
    BY <1>1 DEF Codec!CaptureInit
  <2> QED BY <1>1, <2>1, OutcomesAre DEF Codecs, CodecFields
<1>2. CASE ~c.handles
  <2> DEFINE held == [c EXCEPT !.handles = TRUE]
             opened == Codec!OpenMicrophone(held)
             failing == {o \in opened : ~o.ok} \cup {Codec!Failed(c)}
  <2>1. held \in Codecs /\ held.handles /\ held.ready = c.ready /\ held.playback = c.playback
        /\ (Silenced(c) => Silenced(held))
    BY DEF Codecs, CodecFields, Silenced
  <2>2. \A o \in opened :
          /\ o \in CodecOutcomes /\ o.bad \in {0, 1}
          /\ o.codec.handles /\ o.codec.ready = c.ready /\ o.codec.playback = c.playback
          /\ Silenced(c) => Silenced(o.codec)
          /\ o.ok => o.bad = 0 /\ o.codec.mic
          /\ ~o.ok => o.bad = 1
    BY <2>1, OpenMicrophoneIs
  <2>3. \A f \in failing : f.codec \in Codecs /\ f.codec.ready = c.ready
                             /\ f.codec.playback = c.playback /\ f.bad = 1
    BY <2>2 DEF Codec!Failed, CodecOutcomes
  <2>4. r \in {o \in opened : o.ok} \cup UNION {Codec!Anyway(f, Codec!Deinit(f.codec)) : f \in failing}
    BY <1>2 DEF Codec!CaptureInit
  <2> HIDE DEF failing, opened
  <2>5. CASE r \in opened /\ r.ok
    BY <2>2, <2>5, <1>2 DEF CodecOutcomes
  <2>6. ASSUME NEW f \in failing, r \in Codec!Anyway(f, Codec!Deinit(f.codec))
        PROVE  /\ r \in CodecOutcomes /\ r.ok = FALSE /\ r.bad # 0
               /\ ~r.codec.handles /\ r.codec.ready = c.ready /\ r.codec.playback = c.playback
               /\ Silenced(r.codec)
    <3>1. PICK s \in Codec!Deinit(f.codec) : r = [codec |-> s.codec, ok |-> FALSE, bad |-> f.bad + s.bad]
      BY <2>6 DEF Codec!Anyway
    <3>2. s \in CodecOutcomes /\ s.bad \in {0, 1} /\ ~s.codec.handles /\ s.codec.ready = c.ready
          /\ s.codec.playback = c.playback /\ Silenced(s.codec)
      BY <2>3, <3>1, DeinitIs
    <3> QED BY <3>1, <3>2, <2>3 DEF CodecOutcomes
  <2>7. (r \in opened /\ r.ok) \/ \E f \in failing : r \in Codec!Anyway(f, Codec!Deinit(f.codec))
    BY <2>4
  <2>8. CASE \E f \in failing : r \in Codec!Anyway(f, Codec!Deinit(f.codec))
    BY <2>6, <2>8 DEF CodecOutcomes, Codecs, CodecFields
  <2> QED BY <2>5, <2>7, <2>8
<1> QED BY <1>1, <1>2

LEMMA EnsureAudioIs ==
  ASSUME NEW c \in Codecs, c.handles = c.ready, NEW r \in Codec!EnsureAudio(c)
  PROVE  /\ r \in CodecOutcomes
         /\ r.codec.handles = r.codec.ready /\ r.codec.playback = c.playback
         /\ Silenced(c) => Silenced(r.codec)
         /\ r.bad = 0 => r.codec.ready
         /\ c.ready => r.codec = c
         /\ ~c.ready /\ r.bad = 0 => r.codec.mic
<1>1. CASE c.ready
  <2>1. r = Codec!Did(c)
    BY <1>1 DEF Codec!EnsureAudio
  <2> QED BY <1>1, <2>1, OutcomesAre
<1>2. CASE ~c.ready
  <2>1. PICK i \in Codec!CaptureInit(c) : r = [i EXCEPT !.codec.ready = i.ok]
    BY <1>2 DEF Codec!EnsureAudio
  <2>2. /\ i \in CodecOutcomes
        /\ i.codec.handles = i.ok /\ i.codec.playback = c.playback
        /\ Silenced(c) => Silenced(i.codec)
        /\ i.bad = 0 => i.ok /\ i.codec.mic
    BY <1>2, CaptureInitIs
  <2>3. /\ r.codec = [i.codec EXCEPT !.ready = i.ok] /\ r.bad = i.bad /\ r \in CodecOutcomes
    BY <2>1, <2>2 DEF CodecOutcomes, Codecs, CodecFields
  <2> QED BY <1>2, <2>2, <2>3 DEF Codecs, CodecFields, Silenced, CodecOutcomes
<1> QED BY <1>1, <1>2

LEMMA CaptureStartIs ==
  ASSUME NEW c \in Codecs, c.handles = c.ready, NEW r \in Codec!CaptureStart(c)
  PROVE  /\ r \in CodecOutcomes
         /\ r.codec.handles = r.codec.ready /\ r.codec.playback = c.playback
         /\ Silenced(c) => Silenced(r.codec)
         /\ r.bad = 0 => /\ r.codec.ready
                         /\ (c.ready /\ ~c.mic) \/ r.codec.mic
                         /\ r.codec.playback \/ r.codec.capture
<1>1. PICK e \in Codec!EnsureAudio(c) :
        r = Codec!Instead(e, [e.codec EXCEPT !.capture = @ \/ (e.codec.handles /\ ~e.codec.playback)])
  BY DEF Codec!CaptureStart
<1>2. /\ e \in CodecOutcomes
      /\ e.codec.handles = e.codec.ready /\ e.codec.playback = c.playback
      /\ Silenced(c) => Silenced(e.codec)
      /\ e.bad = 0 => e.codec.ready
      /\ c.ready => e.codec = c
      /\ ~c.ready /\ e.bad = 0 => e.codec.mic
  BY <1>1, EnsureAudioIs
<1> DEFINE b == e.codec
           next == [b EXCEPT !.capture = @ \/ (b.handles /\ ~b.playback)]
<1>3. b \in Codecs
  BY <1>2 DEF CodecOutcomes
<1>4. r.codec = next /\ r.ok = e.ok /\ r.bad = e.bad /\ r = [codec |-> next, ok |-> e.ok, bad |-> e.bad]
  BY <1>1 DEF Codec!Instead
<1> HIDE DEF b
<1>5. /\ next \in Codecs /\ next.handles = b.handles /\ next.ready = b.ready /\ next.mic = b.mic
      /\ next.amp = b.amp /\ next.playback = b.playback
      /\ b.handles => next.playback \/ next.capture
  BY <1>3 DEF Codecs, CodecFields
<1> HIDE DEF next
<1>6. r \in CodecOutcomes
  BY <1>2, <1>4, <1>5 DEF CodecOutcomes
<1>7. b.handles = b.ready /\ b.playback = c.playback /\ (Silenced(c) => Silenced(b))
      /\ (e.bad = 0 => b.ready) /\ (c.ready => b = c) /\ (~c.ready /\ e.bad = 0 => b.mic)
  BY <1>2 DEF b
<1> QED BY <1>4, <1>5, <1>6, <1>7 DEF Silenced

(* A speaker that could not be opened gives the microphone back.           *)
LEMMA GivesUpIs ==
  ASSUME NEW c \in Codecs, NEW r \in Codec!GivesUp(c)
  PROVE  /\ r \in CodecOutcomes /\ r.bad # 0
         /\ r.codec.handles = c.handles /\ r.codec.ready = c.ready
         /\ Silenced(c) => Silenced(r.codec)
<1> DEFINE b == [c EXCEPT !.spk = FALSE]
<1>1. b \in Codecs /\ b.handles = c.handles /\ b.ready = c.ready /\ b.mic = c.mic /\ b.amp = c.amp
  BY DEF Codecs, CodecFields
<1>2. PICK s \in Codec!OpenMicrophone(b) :
        r = [codec |-> s.codec, ok |-> FALSE, bad |-> Codec!Failed(c).bad + s.bad]
  BY DEF Codec!GivesUp, Codec!Anyway
<1> HIDE DEF b
<1>3. /\ s \in CodecOutcomes /\ s.bad \in {0, 1}
      /\ s.codec.handles = b.handles /\ s.codec.ready = b.ready
      /\ Silenced(b) => Silenced(s.codec)
  BY <1>1, <1>2, OpenMicrophoneIs
<1>4. r.codec = s.codec /\ r.bad = 1 + s.bad /\ r \in CodecOutcomes
  <2>1. Codec!Failed(c).bad = 1
    BY OutcomesAre
  <2>2. r = [codec |-> s.codec, ok |-> FALSE, bad |-> 1 + s.bad] /\ s.codec \in Codecs /\ s.bad \in Nat
    BY <1>2, <1>3, <2>1 DEF CodecOutcomes
  <2> QED BY <2>2 DEF CodecOutcomes
<1> QED BY <1>1, <1>3, <1>4 DEF Silenced

LEMMA OpenSpeakerIs ==
  ASSUME NEW c \in Codecs, NEW r \in Codec!OpenSpeaker(c)
  PROVE  /\ r \in CodecOutcomes
         /\ r.codec.handles = c.handles /\ r.codec.ready = c.ready
         /\ Silenced(r.codec)
         /\ r.bad = 0 => r.codec.playback
<1> DEFINE closed == [c EXCEPT !.capture = FALSE, !.mic = FALSE]
           open == [closed EXCEPT !.spk = TRUE]
<1>1. closed \in Codecs /\ closed.handles = c.handles /\ closed.ready = c.ready /\ ~closed.mic
  BY DEF Codecs, CodecFields
<1> HIDE DEF closed
<1>2. open \in Codecs /\ open.handles = c.handles /\ open.ready = c.ready /\ ~open.mic
  BY <1>1 DEF Codecs, CodecFields
<1>3. \/ r \in Codec!GivesUp(closed) \cup Codec!GivesUp(open)
      \/ \E a \in Codec!Amplifier(open, TRUE) :
           r \in IF a.ok THEN {Codec!Did([a.codec EXCEPT !.playback = TRUE])} ELSE Codec!GivesUp(open)
  BY DEF Codec!OpenSpeaker, closed
<1> HIDE DEF open
<1>4. CASE r \in Codec!GivesUp(closed) \cup Codec!GivesUp(open)
  BY <1>1, <1>2, <1>4, GivesUpIs DEF Silenced
<1>5. ASSUME NEW a \in Codec!Amplifier(open, TRUE), a.ok, r = Codec!Did([a.codec EXCEPT !.playback = TRUE])
      PROVE  /\ r \in CodecOutcomes /\ Silenced(r.codec) /\ r.codec.playback
             /\ r.codec.handles = c.handles /\ r.codec.ready = c.ready
  <2>1. a.codec = [open EXCEPT !.amp = TRUE]
    BY <1>2, <1>5, AmplifierIs
  <2>2. a.codec \in Codecs /\ a.codec.handles = c.handles /\ a.codec.ready = c.ready /\ ~a.codec.mic
    BY <1>2, <2>1 DEF Codecs, CodecFields
  <2> DEFINE on == [a.codec EXCEPT !.playback = TRUE]
  <2>3. on \in Codecs /\ on.handles = c.handles /\ on.ready = c.ready /\ ~on.mic /\ on.playback
    BY <2>2 DEF Codecs, CodecFields
  <2> HIDE DEF on
  <2>4. r = Codec!Did(on)
    BY <1>5 DEF on
  <2> QED BY <2>3, <2>4, OutcomesAre DEF Silenced
<1>6. CASE \E a \in Codec!Amplifier(open, TRUE) :
             r \in IF a.ok THEN {Codec!Did([a.codec EXCEPT !.playback = TRUE])} ELSE Codec!GivesUp(open)
  BY <1>4, <1>5, <1>6
<1> QED BY <1>3, <1>4, <1>6

LEMMA PlaybackStartIs ==
  ASSUME NEW c \in Codecs, c.handles = c.ready, NEW r \in Codec!PlaybackStart(c)
  PROVE  /\ r \in CodecOutcomes
         /\ r.codec.handles = r.codec.ready
         /\ Silenced(c) => Silenced(r.codec)
         /\ r.bad = 0 => r.codec.playback
<1>1. PICK e \in Codec!EnsureAudio(c) :
        r \in IF ~e.codec.handles THEN {[e EXCEPT !.ok = FALSE]}
              ELSE IF e.codec.playback THEN {[e EXCEPT !.ok = TRUE]}
              ELSE {[o EXCEPT !.bad = @ + e.bad] : o \in Codec!OpenSpeaker(e.codec)}
  BY DEF Codec!PlaybackStart
<1>2. /\ e \in CodecOutcomes /\ e.codec \in Codecs /\ e.bad \in Nat
      /\ e.codec.handles = e.codec.ready
      /\ Silenced(c) => Silenced(e.codec)
      /\ e.bad = 0 => e.codec.ready
  BY <1>1, EnsureAudioIs DEF CodecOutcomes
<1>3. CASE ~e.codec.handles \/ e.codec.playback
  <2>1. PICK ok \in BOOLEAN : r = [e EXCEPT !.ok = ok]
    BY <1>1, <1>3
  <2>2. r \in CodecOutcomes /\ r.codec = e.codec /\ r.bad = e.bad
    BY <1>2, <2>1 DEF CodecOutcomes
  <2> QED BY <1>2, <1>3, <2>2
<1>4. CASE e.codec.handles /\ ~e.codec.playback
  <2>1. PICK o \in Codec!OpenSpeaker(e.codec) : r = [o EXCEPT !.bad = @ + e.bad]
    BY <1>1, <1>4
  <2>2. /\ o \in CodecOutcomes /\ o.codec.handles = e.codec.handles /\ o.codec.ready = e.codec.ready
        /\ Silenced(o.codec) /\ (o.bad = 0 => o.codec.playback)
    BY <1>2, <2>1, OpenSpeakerIs
  <2>3. r \in CodecOutcomes /\ r.codec = o.codec /\ r.bad = o.bad + e.bad /\ o.bad \in Nat
    BY <1>2, <2>1, <2>2 DEF CodecOutcomes
  <2> QED BY <1>2, <2>2, <2>3
<1> QED BY <1>3, <1>4

(* A sound that ends without a failed access leaves an open microphone.    *)
LEMMA PlaybackStopIs ==
  ASSUME NEW c \in Codecs, NEW r \in Codec!PlaybackStop(c)
  PROVE  /\ r \in CodecOutcomes
         /\ r.codec.handles = c.handles /\ r.codec.ready = c.ready
         /\ Silenced(c) => Silenced(r.codec)
         /\ r.bad = 0 => r.codec = c \/ (r.codec.mic /\ ~r.codec.playback)
<1>1. CASE ~c.playback
  <2>1. r = Codec!Did(c)
    BY <1>1 DEF Codec!PlaybackStop
  <2> QED BY <2>1, OutcomesAre
<1>2. CASE c.playback
  <2>1. PICK a \in Codec!Amplifier(c, FALSE) :
          r \in IF ~a.ok THEN {a}
                ELSE {[o EXCEPT !.codec.playback = FALSE]
                      : o \in Codec!OpenMicrophone([a.codec EXCEPT !.spk = FALSE])}
    BY <1>2 DEF Codec!PlaybackStop
  <2>2. CASE ~a.ok
    <3>1. r = a
      BY <2>1, <2>2
    <3> QED BY <2>1, <2>2, <3>1, AmplifierIs
  <2>3. CASE a.ok
    <3> DEFINE b == [a.codec EXCEPT !.spk = FALSE]
    <3>1. a.codec = [c EXCEPT !.amp = FALSE]
      BY <2>1, <2>3, AmplifierIs
    <3>2. a.codec \in Codecs /\ a.codec.handles = c.handles /\ a.codec.ready = c.ready /\ ~a.codec.amp
      BY <3>1 DEF Codecs, CodecFields
    <3>3. b \in Codecs /\ b.handles = c.handles /\ b.ready = c.ready /\ ~b.amp
      BY <3>2 DEF Codecs, CodecFields
    <3>4. PICK o \in Codec!OpenMicrophone(b) : r = [o EXCEPT !.codec.playback = FALSE]
      BY <2>1, <2>3
    <3> HIDE DEF b
    <3>5. /\ o \in CodecOutcomes /\ o.codec \in Codecs /\ o.bad \in {0, 1}
          /\ o.codec.handles = b.handles /\ o.codec.ready = b.ready
          /\ Silenced(b) => Silenced(o.codec)
          /\ o.ok => o.codec.mic
          /\ ~o.ok => o.bad = 1
      BY <3>3, <3>4, OpenMicrophoneIs DEF CodecOutcomes
    <3>6. r.codec = [o.codec EXCEPT !.playback = FALSE] /\ r.bad = o.bad /\ r.ok = o.ok
      BY <3>4, <3>5 DEF CodecOutcomes
    <3>7. /\ r.codec \in Codecs /\ ~r.codec.playback /\ r.codec.mic = o.codec.mic /\ r.codec.amp = o.codec.amp
          /\ r.codec.handles = o.codec.handles /\ r.codec.ready = o.codec.ready
      <4> DEFINE d == o.codec
      <4>1. d \in Codecs /\ r.codec = [d EXCEPT !.playback = FALSE]
        BY <3>5, <3>6
      <4> HIDE DEF d
      <4>2. /\ r.codec \in Codecs /\ ~r.codec.playback /\ r.codec.mic = d.mic /\ r.codec.amp = d.amp
            /\ r.codec.handles = d.handles /\ r.codec.ready = d.ready
        BY <4>1 DEF Codecs, CodecFields
      <4> QED BY <4>2 DEF d
    <3>8. r \in CodecOutcomes
      BY <3>4, <3>5, <3>7 DEF CodecOutcomes
    <3> QED BY <3>3, <3>5, <3>6, <3>7, <3>8 DEF Silenced, CodecOutcomes
  <2> QED BY <2>2, <2>3
<1> QED BY <1>1, <1>2

(* A call comes to one of its outcomes.                                    *)
LEMMA CallIs ==
  ASSUME CodecInv, NEW S, Codec!Call(S), \A r \in S : r \in CodecOutcomes
  PROVE  \E r \in S : /\ codec' = r.codec /\ codec' \in Codecs
                      /\ faults' \in 0 .. CodecFaults /\ clean' \in BOOLEAN
                      /\ clean' => /\ r.bad = 0
                                   /\ \/ clean \/ (r.codec.ready /\ ~codec.ready)
                                      \/ (codec.playback /\ ~r.codec.playback)
<1>1. PICK r \in S : /\ faults + r.bad <= CodecFaults /\ faults' = faults + r.bad
                     /\ codec' = r.codec
                     /\ clean' = (r.bad = 0 /\ (clean \/ (r.codec.ready /\ ~codec.ready)
                                     \/ (codec.spk /\ codec.playback /\ ~r.codec.playback)))
  BY DEF Codec!Call
<1>2. r.bad \in Nat /\ r.codec \in Codecs /\ faults \in Nat /\ CodecFaults \in Nat
  BY <1>1, ServicesAssumption DEF CodecOutcomes, CodecInv, Codec!FaultsAssumption
<1>3. faults' \in 0 .. CodecFaults
  BY <1>1, <1>2
<1> QED BY <1>1, <1>2, <1>3

LEMMA CodecInit == Codec!Init => CodecInv
<1> SUFFICES ASSUME Codec!Init PROVE CodecInv
  OBVIOUS
<1>1. codec = Codec!Off /\ unit = "idle" /\ faults = 0 /\ clean = FALSE
  BY DEF Codec!Init
<1>2. Codec!Off \in Codecs /\ ~Codec!Off.handles /\ ~Codec!Off.ready /\ ~Codec!Off.mic
  BY OffIs
<1>3. 0 \in 0 .. CodecFaults
  BY ServicesAssumption DEF Codec!FaultsAssumption
<1> QED BY <1>1, <1>2, <1>3 DEF CodecInv, Silenced, Codec!HearsAgain, Codecs, CodecFields

LEMMA CodecKeeps ==
  ASSUME CodecInv, [Codec!Next]_(Codec!codecVars)
  PROVE  CodecInv'
<1>t. /\ codec \in Codecs /\ codec.handles = codec.ready /\ Silenced(codec)
      /\ codec.ready \in BOOLEAN /\ codec.playback \in BOOLEAN /\ clean \in BOOLEAN
      /\ codec.ready /\ clean /\ ~codec.playback => codec.mic /\ (unit = "recording" => codec.capture)
  BY DEF CodecInv, Codec!HearsAgain, Codecs, CodecFields
<1>1. CASE Codec!Record
  <2>1. \A r \in Codec!CaptureStart(codec) : r \in CodecOutcomes
    BY <1>t, CaptureStartIs
  <2>2. PICK r \in Codec!CaptureStart(codec) :
          /\ codec' = r.codec /\ codec' \in Codecs /\ faults' \in 0 .. CodecFaults /\ clean' \in BOOLEAN
          /\ clean' => /\ r.bad = 0
                       /\ \/ clean \/ (r.codec.ready /\ ~codec.ready)
                          \/ (codec.playback /\ ~r.codec.playback)
    BY <1>1, <2>1, CallIs DEF Codec!Record
  <2>3. /\ r.codec.handles = r.codec.ready /\ r.codec.playback = codec.playback
        /\ Silenced(r.codec)
        /\ r.bad = 0 => /\ r.codec.ready
                        /\ (codec.ready /\ ~codec.mic) \/ r.codec.mic
                        /\ r.codec.playback \/ r.codec.capture
    BY <1>t, <2>2, CaptureStartIs
  <2>4. unit' = "recording"
    BY <1>1 DEF Codec!Record
  <2>5. codec'.ready /\ clean' /\ ~codec'.playback => codec'.mic /\ codec'.capture
    BY <1>t, <2>2, <2>3
  <2> QED BY <2>2, <2>3, <2>4, <2>5 DEF CodecInv, Silenced, Codec!HearsAgain
<1>2. CASE Codec!StopRecording
  <2>1. codec' = [codec EXCEPT !.capture = FALSE] /\ unit' = "idle" /\ UNCHANGED <<faults, clean>>
    BY <1>2 DEF Codec!StopRecording, Codec!CaptureStop
  <2>2. /\ codec' \in Codecs /\ codec'.handles = codec.handles /\ codec'.ready = codec.ready
        /\ codec'.mic = codec.mic /\ codec'.amp = codec.amp /\ codec'.playback = codec.playback
    BY <1>t, <2>1 DEF Codecs, CodecFields
  <2> QED BY <1>t, <2>1, <2>2 DEF CodecInv, Silenced, Codec!HearsAgain
<1>3. CASE Codec!Speak
  <2>1. \A r \in Codec!PlaybackStart(codec) : r \in CodecOutcomes
    BY <1>t, PlaybackStartIs
  <2>2. PICK r \in Codec!PlaybackStart(codec) :
          /\ codec' = r.codec /\ codec' \in Codecs /\ faults' \in 0 .. CodecFaults /\ clean' \in BOOLEAN
          /\ clean' => r.bad = 0
    BY <1>3, <2>1, CallIs DEF Codec!Speak
  <2>3. r.codec.handles = r.codec.ready /\ Silenced(r.codec) /\ (r.bad = 0 => r.codec.playback)
    BY <1>t, <2>2, PlaybackStartIs
  <2>4. unit' = "speaking"
    BY <1>3 DEF Codec!Speak
  <2> QED BY <2>2, <2>3, <2>4 DEF CodecInv, Silenced, Codec!HearsAgain
<1>4. CASE Codec!Refused
  <2>1. unit' = "stopping" /\ (Codec!Call({Codec!Failed(codec)}) \/ Codec!Call({Codec!Did(codec)}))
    BY <1>4 DEF Codec!Refused
  <2>2. Codec!Failed(codec) \in CodecOutcomes /\ Codec!Failed(codec).codec = codec /\ Codec!Failed(codec).bad = 1
        /\ Codec!Did(codec) \in CodecOutcomes /\ Codec!Did(codec).codec = codec
    BY <1>t, OutcomesAre
  <2>3. codec' = codec /\ faults' \in 0 .. CodecFaults /\ clean' \in BOOLEAN /\ (clean' => clean)
    <3>1. CASE Codec!Call({Codec!Failed(codec)})
      BY <2>2, <3>1, CallIs
    <3>2. CASE Codec!Call({Codec!Did(codec)})
      BY <1>t, <2>2, <3>2, CallIs
    <3> QED BY <2>1, <3>1, <3>2
  <2> QED BY <1>t, <2>1, <2>3 DEF CodecInv, Silenced, Codec!HearsAgain
<1>5. CASE Codec!Played
  BY <1>5, <1>t DEF Codec!Played, CodecInv, Silenced, Codec!HearsAgain
<1>6. CASE Codec!StopPlaying
  <2>1. \A r \in Codec!PlaybackStop(codec) : r \in CodecOutcomes
    BY <1>t, PlaybackStopIs
  <2>2. PICK r \in Codec!PlaybackStop(codec) :
          /\ codec' = r.codec /\ codec' \in Codecs /\ faults' \in 0 .. CodecFaults /\ clean' \in BOOLEAN
          /\ clean' => /\ r.bad = 0
                       /\ \/ clean \/ (r.codec.ready /\ ~codec.ready)
                          \/ (codec.playback /\ ~r.codec.playback)
    BY <1>6, <2>1, CallIs DEF Codec!StopPlaying
  <2>3. /\ r.codec.handles = codec.handles /\ r.codec.ready = codec.ready /\ Silenced(r.codec)
        /\ r.bad = 0 => r.codec = codec \/ (r.codec.mic /\ ~r.codec.playback)
    BY <1>t, <2>2, PlaybackStopIs
  <2>4. unit' = "idle"
    BY <1>6 DEF Codec!StopPlaying
  <2>5. codec'.ready /\ clean' /\ ~codec'.playback => codec'.mic
    BY <1>t, <2>2, <2>3
  <2> QED BY <1>t, <2>2, <2>3, <2>4, <2>5 DEF CodecInv, Silenced, Codec!HearsAgain
<1>7. CASE Codec!SleepFails
  <2> DEFINE gone == {[d EXCEPT !.codec.ready = FALSE] : d \in Codec!Deinit(codec)}
  <2>1. \A r \in gone : /\ r \in CodecOutcomes
                        /\ ~r.codec.handles /\ ~r.codec.ready /\ Silenced(r.codec)
    <3> SUFFICES ASSUME NEW d \in Codec!Deinit(codec), NEW r, r = [d EXCEPT !.codec.ready = FALSE]
                 PROVE  r \in CodecOutcomes /\ ~r.codec.handles /\ ~r.codec.ready /\ Silenced(r.codec)
      OBVIOUS
    <3>1. d \in CodecOutcomes /\ d.codec \in Codecs /\ ~d.codec.handles /\ Silenced(d.codec)
      BY <1>t, DeinitIs DEF CodecOutcomes
    <3> DEFINE b == d.codec
    <3>2. b \in Codecs /\ r.codec = [b EXCEPT !.ready = FALSE]
      BY <3>1 DEF CodecOutcomes
    <3> HIDE DEF b
    <3>3. /\ r.codec \in Codecs /\ ~r.codec.ready /\ r.codec.handles = b.handles
          /\ r.codec.mic = b.mic /\ r.codec.amp = b.amp
      BY <3>2 DEF Codecs, CodecFields
    <3>4. r \in CodecOutcomes
      BY <3>1, <3>2, <3>3 DEF CodecOutcomes
    <3> QED BY <3>1, <3>3, <3>4 DEF Silenced, b
  <2> HIDE DEF gone
  <2>2. Codec!Call(gone) /\ unit' = unit
    BY <1>7 DEF Codec!SleepFails, gone
  <2>3. PICK r \in gone :
          codec' = r.codec /\ codec' \in Codecs /\ faults' \in 0 .. CodecFaults /\ clean' \in BOOLEAN
    BY <2>1, <2>2, CallIs
  <2>4. ~r.codec.handles /\ ~r.codec.ready /\ Silenced(r.codec)
    BY <2>1, <2>3
  <2>5. codec'.handles = codec'.ready
    BY <2>3, <2>4 DEF Codecs, CodecFields
  <2> QED BY <2>2, <2>3, <2>4, <2>5 DEF CodecInv, Silenced, Codec!HearsAgain
<1>8. CASE Codec!Sleep
  <2>1. Codec!Off \in Codecs /\ ~Codec!Off.handles /\ ~Codec!Off.ready /\ ~Codec!Off.mic
        /\ Codec!Off.handles = Codec!Off.ready
    BY OffIs
  <2> QED BY <1>8, <2>1 DEF Codec!Sleep, CodecInv, Silenced, Codec!HearsAgain
<1>9. CASE UNCHANGED Codec!codecVars
  BY <1>9 DEF Codec!codecVars, CodecInv, Silenced, Codec!HearsAgain
<1> QED BY <1>1, <1>2, <1>3, <1>4, <1>5, <1>6, <1>7, <1>8, <1>9 DEF Codec!Next

LEMMA CodecServes == CodecInv => Codec!TypeOK /\ Codec!MicrophoneIsQuiet /\ Codec!HearsAgain
  BY CodecFieldsAre DEF CodecInv, Codec!TypeOK, Codec!MicrophoneIsQuiet, Silenced, Codecs

-----------------------------------------------------------------------------
(* Sleep and the second key.  The sleep policy never counts more rounds    *)
(* than there were without work; the pin is armed before the last look at  *)
(* the cable.  Of KEY2: while the portal's hold lasts, the brightness key  *)
(* has seen it for as long, so that a hold that opened the portal is a     *)
(* long press at its release, however it bounced on the way.               *)
Dimmers == [known : BOOLEAN, raw : BOOLEAN, down : BOOLEAN, changed : 0 .. Debounce,
            pressed : 0 .. LongPress + Debounce, armed : BOOLEAN]
Portals == [held : BOOLEAN, fired : BOOLEAN, active : BOOLEAN, since : 0 .. LongPress, open : Nat]

PowerTypes ==
  /\ Power!TypeOK
  /\ policy \in [tracking : BOOLEAN, idle : 0 .. Timeout]
  /\ dimmer \in Dimmers /\ portal \in Portals
  /\ did \in SUBSET {"dimmed", "opened"}

SleepWatched ==
  /\ policy.idle <= since
  /\ at \notin {"loop", "asleep"} => since >= Timeout
  /\ at \in {"clear", "recheck", "dark", "rails", "asleep"} => irq.armed
  /\ at \in {"dark", "rails", "asleep"} /\ env.cable => irq.latched

DimmerFollows ==
  /\ dimmer.changed >= Debounce => dimmer.down = dimmer.raw
  /\ dimmer.armed => dimmer.down
  /\ portal.held => /\ dimmer.known /\ dimmer.raw
                    /\ dimmer.changed >= Debounce \/ dimmer.changed >= portal.since
                    /\ dimmer.armed => dimmer.pressed >= portal.since

LongHold(d) == d.armed => d.pressed >= LongPress + (IF d.raw THEN 0 ELSE d.changed)

PressMeans ==
  /\ ~dimmer.known => did = {}
  /\ ~("dimmed" \in did /\ "opened" \in did)
  /\ "dimmed" \in did => ~env.key2 /\ ~dimmer.down
  /\ "opened" \in did => IF dimmer.down THEN LongHold(dimmer) ELSE ~env.key2

PowerInv == PowerTypes /\ SleepWatched /\ DimmerFollows /\ PressMeans

LEMMA TimesAre ==
  /\ Timeout \in Nat \ {0} /\ Debounce \in Nat \ {0} /\ PortalTime \in Nat \ {0}
  /\ LongPress \in Nat /\ LongPress > Debounce /\ PowerFaults \in Nat
  /\ 0 \in 0 .. Debounce /\ 0 \in 0 .. LongPress /\ 0 \in 0 .. LongPress + Debounce /\ 0 \in 0 .. Timeout
  BY ServicesAssumption DEF Power!TimesAssumption

LEMMA UpIs ==
  ASSUME NEW top \in Nat, NEW n \in 0 .. top
  PROVE  /\ Power!Up(n, top) \in 0 .. top
         /\ Power!Up(n, top) = IF n + 1 <= top THEN n + 1 ELSE top
  BY DEF Power!Up

(* What a tick of the brightness key makes of its debounce and its hold.   *)
Settles(d, e, down) == d.known /\ d.down # down /\ e.changed >= Debounce

LEMMA DimmerIs ==
  ASSUME NEW d \in Dimmers, NEW down \in BOOLEAN, NEW t, t = Power!DimmerTick(d, down)
  PROVE  /\ t.d \in Dimmers /\ t.d.known /\ t.d.raw = down
         /\ ~d.known => ~t.level /\ t.d.changed = 0 /\ ~t.d.armed /\ t.d.down = down
         /\ d.known => t.d.changed = IF d.raw = down THEN Power!Up(d.changed, Debounce) ELSE 0
         /\ Settles(d, t.d, down) =>
              /\ t.d.down = down /\ t.d.armed = down
              /\ down => t.d.pressed = t.d.changed
              /\ t.level => /\ ~down /\ d.armed
                            /\ Power!Up(d.pressed, Power!Longest) - t.d.changed < LongPress
         /\ d.known /\ ~Settles(d, t.d, down) =>
              /\ ~t.level /\ t.d.down = d.down /\ t.d.armed = d.armed
              /\ t.d.pressed = IF d.armed THEN Power!Up(d.pressed, Power!Longest) ELSE d.pressed
<1> USE TimesAre
<1> DEFINE raw == IF d.raw = down THEN [d EXCEPT !.changed = Power!Up(@, Debounce)]
                  ELSE [d EXCEPT !.raw = down, !.changed = 0]
           aged == IF d.armed THEN [raw EXCEPT !.pressed = Power!Up(@, Power!Longest)] ELSE raw
           settled == d.down # down /\ aged.changed >= Debounce
<1>0. Power!Longest \in Nat /\ Power!Longest = LongPress + Debounce
  BY DEF Power!Longest
<1>1. /\ raw \in Dimmers /\ raw.raw = down /\ raw.known = d.known /\ raw.down = d.down
      /\ raw.armed = d.armed /\ raw.pressed = d.pressed
      /\ raw.changed = IF d.raw = down THEN Power!Up(d.changed, Debounce) ELSE 0
  <2>1. Power!Up(d.changed, Debounce) \in 0 .. Debounce
    BY UpIs DEF Dimmers
  <2>2. CASE d.raw = down
    <3>1. raw = [d EXCEPT !.changed = Power!Up(d.changed, Debounce)]
      BY <2>2
    <3> HIDE DEF raw
    <3> QED BY <2>1, <2>2, <3>1 DEF Dimmers
  <2>3. CASE d.raw # down
    <3>1. raw = [d EXCEPT !.raw = down, !.changed = 0]
      BY <2>3
    <3> HIDE DEF raw
    <3> QED BY <2>3, <3>1 DEF Dimmers
  <2> QED BY <2>2, <2>3
<1> HIDE DEF raw
<1>2. /\ aged \in Dimmers /\ aged.raw = down /\ aged.known = d.known /\ aged.down = d.down
      /\ aged.armed = d.armed /\ aged.changed = raw.changed
      /\ aged.pressed = IF d.armed THEN Power!Up(d.pressed, Power!Longest) ELSE d.pressed
  <2>1. Power!Up(d.pressed, Power!Longest) \in 0 .. LongPress + Debounce
    BY <1>0, UpIs DEF Dimmers
  <2> QED BY <1>1, <2>1 DEF Dimmers
<1>3. t = IF ~d.known
            THEN [level |-> FALSE, d |-> [Power!NoDimmer EXCEPT !.known = TRUE, !.raw = down, !.down = down]]
          ELSE IF ~settled THEN [level |-> FALSE, d |-> aged]
          ELSE IF down
            THEN [level |-> FALSE, d |-> [aged EXCEPT !.down = TRUE, !.armed = TRUE, !.pressed = aged.changed]]
            ELSE [level |-> Power!Short(aged), d |-> [aged EXCEPT !.down = FALSE, !.armed = FALSE, !.pressed = 0]]
  BY DEF Power!DimmerTick, raw
<1> HIDE DEF aged
<1>4. CASE ~d.known
  <2>1. ~t.level /\ t.d = [Power!NoDimmer EXCEPT !.known = TRUE, !.raw = down, !.down = down]
    BY <1>3, <1>4
  <2> DEFINE e == t.d
  <2>2. e = [known |-> TRUE, raw |-> down, down |-> down, changed |-> 0, pressed |-> 0, armed |-> FALSE]
    BY <2>1 DEF Power!NoDimmer
  <2> HIDE DEF e
  <2>3. e \in Dimmers /\ e.known /\ e.raw = down /\ e.changed = 0 /\ ~e.armed /\ e.down = down
    BY <2>2 DEF Dimmers
  <2> QED BY <1>4, <2>1, <2>3 DEF Settles, e
<1>5. CASE d.known /\ ~settled
  <2>1. ~t.level /\ t.d = aged
    BY <1>3, <1>5
  <2> QED BY <1>1, <1>2, <1>5, <2>1 DEF Settles
<1>6. CASE d.known /\ settled /\ down
  <2>1. t = [level |-> FALSE, d |-> [aged EXCEPT !.down = TRUE, !.armed = TRUE, !.pressed = aged.changed]]
    BY <1>3, <1>6
  <2> DEFINE e == [aged EXCEPT !.down = TRUE, !.armed = TRUE, !.pressed = aged.changed]
  <2>2. aged.changed \in 0 .. LongPress + Debounce
    BY <1>2 DEF Dimmers
  <2>3. e \in Dimmers /\ e.known /\ e.raw = down /\ e.changed = aged.changed /\ e.armed /\ e.down
        /\ e.pressed = aged.changed
    BY <1>2, <1>6, <2>2 DEF Dimmers
  <2> HIDE DEF e
  <2>4. ~t.level /\ t.d = e
    BY <2>1 DEF e
  <2>5. Settles(d, e, down)
    BY <1>6, <2>3 DEF Settles
  <2> QED BY <1>1, <1>2, <1>6, <2>3, <2>4, <2>5
<1>7. CASE d.known /\ settled /\ ~down
  <2>1. t = [level |-> Power!Short(aged), d |-> [aged EXCEPT !.down = FALSE, !.armed = FALSE, !.pressed = 0]]
    BY <1>3, <1>7
  <2> DEFINE e == [aged EXCEPT !.down = FALSE, !.armed = FALSE, !.pressed = 0]
  <2>3. e \in Dimmers /\ e.known /\ e.raw = down /\ e.changed = aged.changed /\ e.armed = FALSE
        /\ e.down = FALSE /\ down = FALSE
    BY <1>2, <1>7 DEF Dimmers
  <2> HIDE DEF e
  <2>4. t.level = Power!Short(aged) /\ t.d = e
    BY <2>1 DEF e
  <2>5. Settles(d, e, down)
    BY <1>7, <2>3 DEF Settles
  <2>6. t.level => d.armed /\ Power!Up(d.pressed, Power!Longest) - e.changed < LongPress
    BY <1>2, <2>3, <2>4 DEF Power!Short
  <2> QED BY <1>1, <1>2, <1>7, <2>3, <2>4, <2>5, <2>6
<1> QED BY <1>4, <1>5, <1>6, <1>7 DEF Dimmers

(* What a tick of the portal's key makes of its hold.                      *)
LEMMA PortalIs ==
  ASSUME NEW p \in Portals, NEW down \in BOOLEAN, NEW working \in BOOLEAN,
         NEW t, t = Power!PortalTick(p, down, working)
  PROVE  /\ t \in Portals
         /\ t.held => down
         /\ t.held => t.since = 0 \/ (p.held /\ t.since = Power!Up(p.since, LongPress))
         /\ t.active /\ ~p.active => down /\ p.held /\ p.since + 1 >= LongPress
<1> USE TimesAre
<1> DEFINE q == IF p.active /\ p.open + 1 >= PortalTime THEN [p EXCEPT !.active = FALSE, !.open = 0]
                ELSE [p EXCEPT !.open = IF p.active THEN @ + 1 ELSE 0]
<1>1. q \in Portals /\ (q.active => p.active) /\ q.since = p.since /\ q.held = p.held
  <2>1. CASE p.active /\ p.open + 1 >= PortalTime
    <3>1. q = [p EXCEPT !.active = FALSE, !.open = 0]
      BY <2>1
    <3> HIDE DEF q
    <3> QED BY <2>1, <3>1 DEF Portals
  <2>2. CASE ~(p.active /\ p.open + 1 >= PortalTime)
    <3>1. PICK n \in Nat : q = [p EXCEPT !.open = n]
      BY <2>2 DEF Portals
    <3> HIDE DEF q
    <3> QED BY <3>1 DEF Portals
  <2> QED BY <2>1, <2>2
<1>2. t = IF ~down \/ working THEN [q EXCEPT !.held = FALSE, !.fired = FALSE, !.since = 0]
          ELSE IF ~p.held THEN [q EXCEPT !.held = TRUE, !.since = 0]
          ELSE IF ~p.fired /\ Power!PortalFires(p)
            THEN [q EXCEPT !.active = TRUE, !.fired = TRUE, !.open = 0, !.since = 0]
          ELSE [q EXCEPT !.since = Power!Up(@, LongPress)]
  BY DEF Power!PortalTick
<1>3. Power!Up(q.since, LongPress) \in 0 .. LongPress /\ Power!Up(q.since, LongPress) = Power!Up(p.since, LongPress)
  BY <1>1, UpIs DEF Portals
<1> HIDE DEF q
<1>4. CASE ~down \/ working
  <2>1. t = [q EXCEPT !.held = FALSE, !.fired = FALSE, !.since = 0]
    BY <1>2, <1>4
  <2> QED BY <1>1, <2>1 DEF Portals
<1>5. CASE ~(~down \/ working) /\ ~p.held
  <2>1. t = [q EXCEPT !.held = TRUE, !.since = 0]
    BY <1>2, <1>5
  <2> QED BY <1>1, <1>5, <2>1 DEF Portals
<1>6. CASE ~(~down \/ working) /\ p.held /\ ~p.fired /\ Power!PortalFires(p)
  <2>1. t = [q EXCEPT !.active = TRUE, !.fired = TRUE, !.open = 0, !.since = 0]
    BY <1>2, <1>6
  <2>2. p.since + 1 >= LongPress
    BY <1>6 DEF Power!PortalFires
  <2>3. t = [held |-> q.held, fired |-> TRUE, active |-> TRUE, since |-> 0, open |-> 0]
    BY <1>1, <2>1 DEF Portals
  <2>4. t \in Portals /\ t.since = 0
    BY <1>1, <2>3 DEF Portals
  <2> QED BY <1>6, <2>2, <2>4
<1>7. CASE ~(~down \/ working) /\ p.held /\ ~(~p.fired /\ Power!PortalFires(p))
  <2>1. t = [q EXCEPT !.since = Power!Up(@, LongPress)]
    BY <1>2, <1>7
  <2> QED BY <1>1, <1>3, <1>7, <2>1 DEF Portals
<1> QED BY <1>4, <1>5, <1>6, <1>7

LEMMA PowerInit == Power!Init => PowerInv
<1> SUFFICES ASSUME Power!Init PROVE PowerInv
  OBVIOUS
<1>1. /\ at = "loop" /\ screen = TRUE /\ faults = 0 /\ since = 0 /\ did = {}
      /\ env = [cable |-> TRUE, key1 |-> FALSE, key2 |-> FALSE]
      /\ irq = [armed |-> FALSE, latched |-> FALSE]
      /\ busy = [main |-> FALSE, delivery |-> FALSE, search |-> TRUE]
      /\ policy = [tracking |-> FALSE, idle |-> 0]
      /\ dimmer = Power!NoDimmer /\ portal = Power!NoPortal
  BY DEF Power!Init
<1>2. /\ dimmer \in Dimmers /\ portal \in Portals /\ dimmer.changed = 0 /\ dimmer.armed = FALSE
      /\ portal.held = FALSE
  BY <1>1, TimesAre DEF Power!NoDimmer, Power!NoPortal, Dimmers, Portals
<1>3. PowerTypes
  BY <1>1, <1>2, TimesAre DEF PowerTypes, Power!TypeOK
<1> QED BY <1>1, <1>2, <1>3, TimesAre DEF PowerInv, SleepWatched, DimmerFollows, PressMeans

(* A round's part of the sleep policy.                                     *)
LEMMA RoundWatches ==
  ASSUME PowerInv, Power!Round
  PROVE  /\ at' \in {"loop", "arm"} /\ faults' \in 0 .. PowerFaults /\ since' \in 0 .. Timeout
         /\ policy' \in [tracking : BOOLEAN, idle : 0 .. Timeout]
         /\ policy'.idle <= since'
         /\ at' # "loop" => since' >= Timeout
<1> DEFINE open == Power!PortalTick(portal, env.key2, busy.main)
           working == busy.main \/ open.active \/ busy.search \/ busy.delivery \/ env.key1 \/ env.key2
<1>t. policy \in [tracking : BOOLEAN, idle : 0 .. Timeout] /\ since \in 0 .. Timeout /\ policy.idle <= since
      /\ faults \in 0 .. PowerFaults
  BY DEF PowerInv, PowerTypes, SleepWatched, Power!TypeOK
<1>1. since' = IF busy.main \/ open.active THEN 0 ELSE Power!Up(since, Timeout)
  BY DEF Power!Round
<1>2. PICK fails \in IF faults < PowerFaults THEN {0, 1} ELSE {0} :
        faults' = faults + fails /\ policy' = Power!Asked(fails = 0 /\ ~env.cable, working)
  BY DEF Power!Round
<1>3. at' = IF policy'.tracking /\ policy'.idle >= Timeout THEN "arm" ELSE "loop"
  BY DEF Power!Round
<1> HIDE DEF open
<1>4. Power!Up(since, Timeout) \in 0 .. Timeout
      /\ Power!Up(since, Timeout) = IF since + 1 <= Timeout THEN since + 1 ELSE Timeout
  BY <1>t, TimesAre, UpIs
<1>5. since' \in 0 .. Timeout /\ (~working => since' = Power!Up(since, Timeout))
  BY <1>1, <1>4, TimesAre
<1>6. policy' \in [tracking : BOOLEAN, idle : 0 .. Timeout] /\ policy'.idle <= since'
  <2>1. CASE policy' = Power!Reset
    <3>1. policy' = [tracking |-> FALSE, idle |-> 0]
      BY <2>1 DEF Power!Reset
    <3> QED BY <3>1, <1>5, TimesAre
  <2>2. CASE policy' = Power!Tracked(policy) /\ ~working
    <3>1. CASE policy.tracking
      <4>1. policy' = [policy EXCEPT !.idle = Power!Up(policy.idle, Timeout)]
        BY <2>2, <3>1 DEF Power!Tracked
      <4>2. Power!Up(policy.idle, Timeout) \in 0 .. Timeout
            /\ Power!Up(policy.idle, Timeout) = IF policy.idle + 1 <= Timeout THEN policy.idle + 1 ELSE Timeout
        BY <1>t, TimesAre, UpIs
      <4>3. policy' \in [tracking : BOOLEAN, idle : 0 .. Timeout] /\ policy'.idle = Power!Up(policy.idle, Timeout)
        BY <1>t, <4>1, <4>2
      <4> QED BY <1>t, <1>4, <1>5, <2>2, <4>2, <4>3, TimesAre
    <3>2. CASE ~policy.tracking
      <4>1. policy' = [tracking |-> TRUE, idle |-> 0]
        BY <2>2, <3>2 DEF Power!Tracked
      <4> QED BY <4>1, <1>5, TimesAre
    <3> QED BY <3>1, <3>2
  <2> QED BY <1>2, <2>1, <2>2 DEF Power!Asked
<1>7. faults' \in 0 .. PowerFaults
  BY <1>t, <1>2, TimesAre
<1> QED BY <1>3, <1>5, <1>6, <1>7, TimesAre

(* A round's part of the second key.                                       *)
LEMMA RoundPresses ==
  ASSUME PowerInv, Power!Round
  PROVE  /\ dimmer' \in Dimmers /\ portal' \in Portals /\ did' \in SUBSET {"dimmed", "opened"}
         /\ DimmerFollows' /\ PressMeans'
<1> DEFINE dim == Power!DimmerTick(dimmer, env.key2)
           open == Power!PortalTick(portal, env.key2, busy.main)
           down == env.key2
<1>t. /\ dimmer \in Dimmers /\ portal \in Portals /\ down \in BOOLEAN /\ busy.main \in BOOLEAN
      /\ did \in SUBSET {"dimmed", "opened"}
  BY DEF PowerInv, PowerTypes, Power!TypeOK
<1>1. /\ dimmer' = dim.d /\ portal' = open /\ UNCHANGED env
      /\ did' = did \cup (IF dim.level THEN {"dimmed"} ELSE {})
                    \cup (IF open.active /\ ~portal.active THEN {"opened"} ELSE {})
  BY DEF Power!Round
<1> HIDE DEF dim, open, down
<1> DEFINE settles == Settles(dimmer, dimmer', down)
<1>2. /\ dimmer' \in Dimmers /\ dimmer'.known /\ dimmer'.raw = down
      /\ ~dimmer.known => ~dim.level /\ dimmer'.changed = 0 /\ ~dimmer'.armed /\ dimmer'.down = down
      /\ dimmer.known => dimmer'.changed = IF dimmer.raw = down THEN Power!Up(dimmer.changed, Debounce) ELSE 0
      /\ settles =>
           /\ dimmer'.down = down /\ dimmer'.armed = down
           /\ down => dimmer'.pressed = dimmer'.changed
           /\ dim.level => /\ ~down /\ dimmer.armed
                           /\ Power!Up(dimmer.pressed, Power!Longest) - dimmer'.changed < LongPress
      /\ dimmer.known /\ ~settles =>
           /\ ~dim.level /\ dimmer'.down = dimmer.down /\ dimmer'.armed = dimmer.armed
           /\ dimmer'.pressed = IF dimmer.armed THEN Power!Up(dimmer.pressed, Power!Longest) ELSE dimmer.pressed
  <2>1. dim = Power!DimmerTick(dimmer, down)
    BY DEF dim, down
  <2> QED BY <1>t, <1>1, <2>1, DimmerIs
<1>3. /\ portal' \in Portals
      /\ portal'.held => down
      /\ portal'.held => portal'.since = 0 \/ (portal.held /\ portal'.since = Power!Up(portal.since, LongPress))
      /\ portal'.active /\ ~portal.active => down /\ portal.held /\ portal.since + 1 >= LongPress
  <2>1. portal' = Power!PortalTick(portal, down, busy.main)
    BY <1>1 DEF open, down
  <2> QED BY <1>t, <2>1, PortalIs
<1>4. did' \in SUBSET {"dimmed", "opened"}
  BY <1>t, <1>1
<1>5. /\ Power!Up(dimmer.changed, Debounce) = IF dimmer.changed + 1 <= Debounce THEN dimmer.changed + 1 ELSE Debounce
      /\ Power!Up(portal.since, LongPress) = IF portal.since + 1 <= LongPress THEN portal.since + 1 ELSE LongPress
      /\ Power!Up(dimmer.pressed, Power!Longest) =
           IF dimmer.pressed + 1 <= LongPress + Debounce THEN dimmer.pressed + 1 ELSE LongPress + Debounce
  <2>1. /\ dimmer.changed \in 0 .. Debounce /\ portal.since \in 0 .. LongPress
        /\ dimmer.pressed \in 0 .. Power!Longest /\ Power!Longest \in Nat /\ Power!Longest = LongPress + Debounce
    BY <1>t, TimesAre DEF Dimmers, Portals, Power!Longest
  <2>2. Power!Up(dimmer.changed, Debounce) = IF dimmer.changed + 1 <= Debounce THEN dimmer.changed + 1 ELSE Debounce
    BY <2>1, TimesAre, UpIs
  <2>3. Power!Up(portal.since, LongPress) = IF portal.since + 1 <= LongPress THEN portal.since + 1 ELSE LongPress
    BY <2>1, TimesAre, UpIs
  <2>4. Power!Up(dimmer.pressed, Power!Longest) =
          IF dimmer.pressed + 1 <= Power!Longest THEN dimmer.pressed + 1 ELSE Power!Longest
    BY <2>1, UpIs
  <2> QED BY <2>1, <2>2, <2>3, <2>4
<1>6. /\ dimmer.changed \in 0 .. Debounce /\ dimmer.pressed \in 0 .. LongPress + Debounce /\ portal.since \in 0 .. LongPress
      /\ dimmer'.changed \in 0 .. Debounce /\ dimmer'.pressed \in 0 .. LongPress + Debounce
      /\ dimmer.raw \in BOOLEAN /\ dimmer.down \in BOOLEAN /\ dimmer.armed \in BOOLEAN /\ dimmer'.armed \in BOOLEAN
      /\ dimmer'.down \in BOOLEAN /\ dimmer.known \in BOOLEAN
  BY <1>t, <1>2 DEF Dimmers, Portals
<1>7. /\ dimmer.changed >= Debounce => dimmer.down = dimmer.raw
      /\ dimmer.armed => dimmer.down
      /\ portal.held => /\ dimmer.known /\ dimmer.raw
                        /\ dimmer.changed >= Debounce \/ dimmer.changed >= portal.since
                        /\ dimmer.armed => dimmer.pressed >= portal.since
  BY DEF PowerInv, DimmerFollows
<1>8. /\ ~dimmer.known => did = {}
      /\ ~("dimmed" \in did /\ "opened" \in did)
      /\ "dimmed" \in did => ~down /\ ~dimmer.down
      /\ "opened" \in did => IF dimmer.down THEN LongHold(dimmer) ELSE ~down
  BY DEF PowerInv, PressMeans, down
<1>9. settles <=> (dimmer.known /\ dimmer.down # down /\ dimmer'.changed >= Debounce)
  BY DEF Settles
<1> HIDE DEF settles
<1>10. DimmerFollows'
  <2>1. dimmer'.changed >= Debounce => dimmer'.down = dimmer'.raw
    BY <1>t, <1>2, <1>6, <1>9, TimesAre
  <2>2. dimmer'.armed => dimmer'.down
    BY <1>2, <1>6, <1>7, <1>9
  <2>3. ASSUME portal'.held
        PROVE  /\ dimmer'.known /\ dimmer'.raw
               /\ dimmer'.changed >= Debounce \/ dimmer'.changed >= portal'.since
               /\ dimmer'.armed => dimmer'.pressed >= portal'.since
    <3>1. down /\ dimmer'.known /\ dimmer'.raw
      BY <2>3, <1>2, <1>3
    <3>2. CASE portal'.since = 0
      BY <3>1, <3>2, <1>6, TimesAre
    <3>3. CASE portal.held /\ portal'.since = Power!Up(portal.since, LongPress)
      <4>1. dimmer'.changed >= Debounce \/ dimmer'.changed >= portal'.since
        <5>1. dimmer'.changed = Power!Up(dimmer.changed, Debounce)
          BY <3>1, <3>3, <1>t, <1>2, <1>6, <1>7
        <5>2. dimmer.changed >= Debounce \/ dimmer.changed >= portal.since
          BY <3>3, <1>7
        <5> QED BY <3>3, <5>1, <5>2, <1>5, <1>6, TimesAre
      <4>2. CASE settles
        <5>1. dimmer'.pressed = dimmer'.changed /\ dimmer'.changed >= Debounce /\ dimmer.down # down
          BY <3>1, <4>2, <1>2, <1>9
        <5>2. dimmer.changed < Debounce
          <6>1. dimmer.raw = TRUE /\ down = TRUE
            BY <3>1, <3>3, <1>t, <1>6, <1>7
          <6>2. ~(dimmer.changed >= Debounce)
            BY <5>1, <6>1, <1>7
          <6> QED BY <6>2, <1>6, TimesAre
        <5>3. portal'.since <= Debounce
          BY <5>2, <3>3, <1>5, <1>6, <1>7, TimesAre
        <5> QED BY <3>1, <4>1, <5>1, <5>3, <1>6, TimesAre
      <4>3. CASE ~settles
        <5>1. /\ dimmer.known /\ dimmer'.armed = dimmer.armed
              /\ dimmer'.armed => /\ dimmer'.pressed = Power!Up(dimmer.pressed, Power!Longest)
                                  /\ dimmer.pressed >= portal.since
          BY <3>3, <4>3, <1>2, <1>7
        <5>2. dimmer'.armed => dimmer'.pressed >= portal'.since
          BY <5>1, <3>3, <1>5, <1>6, TimesAre
        <5> QED BY <3>1, <4>1, <5>2
      <4> QED BY <3>1, <4>1, <4>2, <4>3
    <3> QED BY <2>3, <3>2, <3>3, <1>3
  <2> QED BY <2>1, <2>2, <2>3 DEF DimmerFollows
<1>11. ASSUME "opened" \in did
       PROVE  /\ ~dim.level
              /\ IF dimmer'.down THEN LongHold(dimmer') ELSE ~down
  <2>1. dimmer.known /\ "dimmed" \notin did
    BY <1>8, <1>11
  <2>2. CASE ~dimmer.down
    BY <2>1, <2>2, <1>2, <1>6, <1>7, <1>8, <1>9, <1>11
  <2>3. CASE dimmer.down /\ settles
    <3>1. ~down
      BY <1>t, <2>3, <1>9
    <3>2. dimmer.armed => dimmer.pressed >= LongPress + (IF dimmer.raw THEN 0 ELSE dimmer.changed)
      BY <2>3, <1>8, <1>11 DEF LongHold
    <3>3. dimmer'.changed >= Debounce
      BY <2>3, <1>9
    <3>4. dimmer.raw = down
      BY <2>1, <3>3, <1>2, TimesAre
    <3>5. dimmer.changed + 1 >= Debounce
      BY <2>1, <3>3, <3>4, <1>2, <1>5, <1>6, TimesAre
    <3>6. dimmer.armed => dimmer.pressed >= LongPress + dimmer.changed
      BY <3>1, <3>2, <3>4
    <3>7. dimmer.armed => Power!Up(dimmer.pressed, Power!Longest) >= LongPress + Debounce
      BY <3>5, <3>6, <1>5, <1>6, TimesAre
    <3>8. Power!Up(dimmer.pressed, Power!Longest) \in Int
      BY <1>5, <1>6, TimesAre
    <3>9. ~dim.level
      BY <2>3, <3>7, <3>8, <1>2, <1>6, TimesAre
    <3> QED BY <1>2, <2>3, <3>1, <3>9
  <2>4. CASE dimmer.down /\ ~settles
    <3>1. ~dim.level /\ dimmer'.down /\ dimmer'.armed = dimmer.armed
      BY <2>1, <2>4, <1>2
    <3>2. dimmer.armed => dimmer.pressed >= LongPress + (IF dimmer.raw THEN 0 ELSE dimmer.changed)
      BY <2>4, <1>8, <1>11 DEF LongHold
    <3>3. dimmer'.armed => dimmer'.pressed >= LongPress + (IF dimmer'.raw THEN 0 ELSE dimmer'.changed)
      BY <1>t, <2>1, <2>4, <3>1, <3>2, <1>2, <1>5, <1>6, TimesAre
    <3> QED BY <3>1, <3>3 DEF LongHold
  <2> QED BY <1>6, <2>2, <2>3, <2>4
<1>12. ASSUME open.active, ~portal.active
       PROVE  /\ ~dim.level /\ "dimmed" \notin did /\ down
              /\ dimmer'.down /\ LongHold(dimmer')
  <2>1. down /\ portal.held /\ portal.since + 1 >= LongPress
    BY <1>1, <1>3, <1>12
  <2>2. dimmer.known /\ dimmer.raw = TRUE /\ dimmer.changed >= Debounce /\ dimmer.down = TRUE /\ down = TRUE
        /\ (dimmer.armed => dimmer.pressed >= portal.since)
    BY <1>t, <2>1, <1>6, <1>7, TimesAre
  <2>3. ~settles /\ "dimmed" \notin did
    BY <2>2, <1>8, <1>9
  <2>4. ~dim.level /\ dimmer'.down /\ dimmer'.armed = dimmer.armed
        /\ dimmer'.pressed = IF dimmer.armed THEN Power!Up(dimmer.pressed, Power!Longest) ELSE dimmer.pressed
    BY <2>2, <2>3, <1>2
  <2>5. dimmer'.raw /\ (dimmer'.armed => dimmer'.pressed >= LongPress)
    BY <2>1, <2>2, <2>4, <1>2, <1>5, <1>6, TimesAre
  <2>6. LongHold(dimmer')
    BY <2>5, <1>6, TimesAre DEF LongHold
  <2> QED BY <2>1, <2>3, <2>4, <2>6
<1>13. PressMeans'
  <2>1. dimmer'.known /\ env' = env
    BY <1>1, <1>2
  <2>2. "opened" \in did' => "opened" \in did \/ (open.active /\ ~portal.active)
    BY <1>1
  <2>3. "dimmed" \in did' => "dimmed" \in did \/ dim.level
    BY <1>1
  <2>4. ~("dimmed" \in did' /\ "opened" \in did')
    BY <2>2, <2>3, <1>8, <1>11, <1>12
  <2>5. "dimmed" \in did' => ~down /\ ~dimmer'.down
    <3>1. CASE "dimmed" \in did
      BY <3>1, <1>t, <1>2, <1>6, <1>8, <1>9
    <3>2. CASE dim.level
      BY <3>2, <1>t, <1>2, <1>6, <1>9
    <3> QED BY <2>3, <3>1, <3>2
  <2>6. "opened" \in did' => IF dimmer'.down THEN LongHold(dimmer') ELSE ~down
    BY <2>2, <1>11, <1>12
  <2>7. down = env.key2
    BY DEF down
  <2> QED BY <2>1, <2>4, <2>5, <2>6, <2>7 DEF PressMeans, LongHold
<1> QED BY <1>2, <1>3, <1>4, <1>10, <1>13

LEMMA PowerKeeps ==
  ASSUME PowerInv, [Power!Next]_(Power!powerVars)
  PROVE  PowerInv'
<1>t. /\ at \in {"loop", "arm", "clear", "recheck", "dark", "rails", "asleep"}
      /\ env \in [cable : BOOLEAN, key1 : BOOLEAN, key2 : BOOLEAN]
      /\ irq \in [armed : BOOLEAN, latched : BOOLEAN]
      /\ busy \in [main : BOOLEAN, delivery : BOOLEAN, search : BOOLEAN]
      /\ policy \in [tracking : BOOLEAN, idle : 0 .. Timeout] /\ screen \in BOOLEAN
      /\ faults \in 0 .. PowerFaults /\ since \in 0 .. Timeout
      /\ dimmer \in Dimmers /\ portal \in Portals /\ did \in SUBSET {"dimmed", "opened"}
  BY DEF PowerInv, PowerTypes, Power!TypeOK
<1>w. /\ policy.idle <= since
      /\ at \notin {"loop", "asleep"} => since >= Timeout
      /\ at \in {"clear", "recheck", "dark", "rails", "asleep"} => irq.armed
      /\ at \in {"dark", "rails", "asleep"} /\ env.cable => irq.latched
  BY DEF PowerInv, SleepWatched
<1>k. DimmerFollows /\ PressMeans
  BY DEF PowerInv
<1>r. Power!Reset \in [tracking : BOOLEAN, idle : 0 .. Timeout] /\ Power!Reset.idle = 0
  BY TimesAre DEF Power!Reset
(* A step that leaves the keys, and what they did, alone.                  *)
<1>s. ASSUME UNCHANGED <<dimmer, portal, did>>, env'.key2 = env.key2
      PROVE  DimmerFollows' /\ PressMeans'
  BY <1>k, <1>s DEF DimmerFollows, PressMeans, LongHold
<1>1. CASE Power!Round
  <2>1. UNCHANGED <<env, irq, busy, screen>>
    BY <1>1 DEF Power!Round
  <2>2. PowerTypes'
    BY <1>t, <1>1, <2>1, RoundWatches, RoundPresses DEF PowerTypes, Power!TypeOK
  <2>3. SleepWatched'
    BY <1>1, <2>1, RoundWatches DEF SleepWatched
  <2> QED BY <1>1, <2>2, <2>3, RoundPresses DEF PowerInv
<1>2. CASE \E step \in {"arm", "clear", "recheck", "dark", "rails"} : Power!Fails(step)
  <2>1. /\ at' = "loop" /\ policy' = Power!Reset /\ faults' = faults + 1 /\ faults < PowerFaults
        /\ UNCHANGED <<irq, screen, env, busy, dimmer, portal, since, did>>
    BY <1>2 DEF Power!Fails, Power!Defer, Power!Untouched
  <2>2. PowerTypes'
    BY <1>t, <1>r, <2>1, TimesAre DEF PowerTypes, Power!TypeOK
  <2>3. SleepWatched'
    BY <1>t, <1>r, <2>1, TimesAre DEF SleepWatched
  <2> QED BY <1>s, <2>1, <2>2, <2>3 DEF PowerInv
<1>3. CASE Power!Arm
  <2>1. /\ at = "arm" /\ at' = "clear" /\ irq' = [irq EXCEPT !.armed = TRUE]
        /\ UNCHANGED <<policy, screen, faults, env, busy, dimmer, portal, since, did>>
    BY <1>3 DEF Power!Arm, Power!Untouched
  <2>2. irq' \in [armed : BOOLEAN, latched : BOOLEAN] /\ irq'.armed
    BY <1>t, <2>1
  <2>3. PowerTypes'
    BY <1>t, <2>1, <2>2 DEF PowerTypes, Power!TypeOK
  <2>4. SleepWatched'
    BY <1>w, <2>1, <2>2 DEF SleepWatched
  <2> QED BY <1>s, <2>1, <2>3, <2>4 DEF PowerInv
<1>4. CASE Power!Clear
  <2>1. /\ at = "clear" /\ at' = "recheck" /\ irq' = [irq EXCEPT !.latched = FALSE]
        /\ UNCHANGED <<policy, screen, faults, env, busy, dimmer, portal, since, did>>
    BY <1>4 DEF Power!Clear, Power!Untouched
  <2>2. irq' \in [armed : BOOLEAN, latched : BOOLEAN] /\ irq'.armed
    BY <1>t, <1>w, <2>1
  <2>3. PowerTypes'
    BY <1>t, <2>1, <2>2 DEF PowerTypes, Power!TypeOK
  <2>4. SleepWatched'
    BY <1>w, <2>1, <2>2 DEF SleepWatched
  <2> QED BY <1>s, <2>1, <2>3, <2>4 DEF PowerInv
<1>5. CASE Power!Recheck
  <2>1. /\ at = "recheck" /\ UNCHANGED <<irq, screen, faults, env, busy, dimmer, portal, since, did>>
        /\ \/ at' = "loop" /\ policy' = Power!Reset
           \/ ~env.cable /\ at' = "dark" /\ policy' = policy
    BY <1>5 DEF Power!Recheck, Power!Untouched, Power!Defer
  <2>2. PowerTypes'
    BY <1>t, <1>r, <2>1 DEF PowerTypes, Power!TypeOK
  <2>3. SleepWatched'
    BY <1>t, <1>w, <1>r, <2>1, TimesAre DEF SleepWatched
  <2> QED BY <1>s, <2>1, <2>2, <2>3 DEF PowerInv
<1>6. CASE Power!Dark
  <2>1. /\ at = "dark" /\ at' = "rails" /\ screen' = FALSE
        /\ UNCHANGED <<irq, policy, faults, env, busy, dimmer, portal, since, did>>
    BY <1>6 DEF Power!Dark, Power!Untouched
  <2> QED BY <1>t, <1>w, <1>s, <2>1 DEF PowerInv, PowerTypes, Power!TypeOK, SleepWatched
<1>7. CASE Power!Asleep
  <2>1. /\ at = "rails" /\ at' = "asleep"
        /\ UNCHANGED <<irq, policy, screen, faults, env, busy, dimmer, portal, since, did>>
    BY <1>7 DEF Power!Asleep, Power!Untouched
  <2> QED BY <1>t, <1>w, <1>s, <2>1 DEF PowerInv, PowerTypes, Power!TypeOK, SleepWatched
<1>8. CASE Power!Wake
  <2>1. /\ at' = "loop" /\ screen' = TRUE /\ policy' = Power!Reset
        /\ busy' = [main |-> FALSE, delivery |-> FALSE, search |-> TRUE]
        /\ dimmer' = Power!NoDimmer /\ portal' = Power!NoPortal /\ since' = 0 /\ did' = {}
        /\ UNCHANGED <<env, irq, faults>>
    BY <1>8 DEF Power!Wake
  <2>2. /\ dimmer' \in Dimmers /\ portal' \in Portals /\ dimmer'.changed = 0 /\ dimmer'.armed = FALSE
        /\ portal'.held = FALSE
    BY <2>1, TimesAre DEF Power!NoDimmer, Power!NoPortal, Dimmers, Portals
  <2>3. PowerTypes'
    BY <1>t, <1>r, <2>1, <2>2, TimesAre DEF PowerTypes, Power!TypeOK
  <2> QED BY <1>r, <2>1, <2>2, <2>3, TimesAre DEF PowerInv, SleepWatched, DimmerFollows, PressMeans
<1>9. CASE Power!Work \/ Power!Deliver \/ Power!Found
  <2>1. /\ busy' \in [main : BOOLEAN, delivery : BOOLEAN, search : BOOLEAN]
        /\ UNCHANGED <<at, env, irq, policy, dimmer, portal, screen, faults, since, did>>
    BY <1>t, <1>9 DEF Power!Work, Power!Deliver, Power!Found
  <2> QED BY <1>t, <1>w, <1>s, <2>1 DEF PowerInv, PowerTypes, Power!TypeOK, SleepWatched
<1>10. CASE Power!Plug
  <2>1. /\ env' = [env EXCEPT !.cable = ~@]
        /\ irq' = [irq EXCEPT !.latched = @ \/ (irq.armed /\ ~env.cable)]
        /\ UNCHANGED <<at, busy, policy, dimmer, portal, screen, faults, since, did>>
    BY <1>10 DEF Power!Plug
  <2>2. /\ env' \in [cable : BOOLEAN, key1 : BOOLEAN, key2 : BOOLEAN]
        /\ env'.cable = ~env.cable /\ env'.key2 = env.key2
    BY <1>t, <2>1
  <2>3. /\ irq' \in [armed : BOOLEAN, latched : BOOLEAN]
        /\ irq'.armed = irq.armed /\ irq'.latched = (irq.latched \/ (irq.armed /\ ~env.cable))
    BY <1>t, <2>1
  <2>4. PowerTypes'
    BY <1>t, <2>1, <2>2, <2>3 DEF PowerTypes, Power!TypeOK
  <2>5. SleepWatched'
    BY <1>t, <1>w, <2>1, <2>2, <2>3 DEF SleepWatched
  <2> QED BY <1>s, <2>1, <2>2, <2>4, <2>5 DEF PowerInv
<1>11. CASE Power!Key("key1") \/ Power!Key("key2")
  <2>1. PICK k \in {"key1", "key2"} :
          /\ env' = [env EXCEPT ![k] = ~@]
          /\ did' = IF k = "key2" /\ ~env.key2 /\ ~dimmer.down THEN {} ELSE did
          /\ UNCHANGED <<at, irq, busy, policy, dimmer, portal, screen, faults, since>>
    BY <1>11 DEF Power!Key
  <2>2. /\ env' \in [cable : BOOLEAN, key1 : BOOLEAN, key2 : BOOLEAN]
        /\ env'.cable = env.cable
        /\ env'.key2 = IF k = "key2" THEN ~env.key2 ELSE env.key2
    <3>1. CASE k = "key1"
      BY <1>t, <2>1, <3>1
    <3>2. CASE k = "key2"
      BY <1>t, <2>1, <3>2
    <3> QED BY <2>1, <3>1, <3>2
  <2>3. PowerTypes'
    BY <1>t, <2>1, <2>2 DEF PowerTypes, Power!TypeOK
  <2>4. SleepWatched'
    BY <1>w, <2>1, <2>2 DEF SleepWatched
  <2>5. DimmerFollows' /\ PressMeans'
    <3>1. CASE k = "key1"
      BY <1>s, <2>1, <2>2, <3>1
    <3>2. CASE k = "key2" /\ ~env.key2 /\ ~dimmer.down
      <4>1. did' = {}
        BY <2>1, <3>2
      <4> QED BY <1>k, <2>1, <4>1 DEF DimmerFollows, PressMeans
    <3>3. CASE k = "key2" /\ (env.key2 \/ dimmer.down)
      <4>1. did' = did /\ UNCHANGED <<dimmer, portal>> /\ env'.key2 = ~env.key2
        BY <2>1, <2>2, <3>3
      <4>2. "dimmed" \in did => ~env.key2 /\ ~dimmer.down
        BY <1>k DEF PressMeans
      <4>3. "opened" \in did => IF dimmer.down THEN LongHold(dimmer) ELSE ~env.key2
        BY <1>k DEF PressMeans
      <4> QED BY <1>k, <3>3, <4>1, <4>2, <4>3 DEF DimmerFollows, PressMeans, LongHold
    <3> QED BY <2>1, <3>1, <3>2, <3>3
  <2> QED BY <2>3, <2>4, <2>5 DEF PowerInv
<1>12. CASE UNCHANGED Power!powerVars
  BY <1>t, <1>w, <1>s, <1>12 DEF Power!powerVars, PowerInv, PowerTypes, Power!TypeOK, SleepWatched
<1> QED BY <1>1, <1>2, <1>3, <1>4, <1>5, <1>6, <1>7, <1>8, <1>9, <1>10, <1>11, <1>12
           DEF Power!Next, Power!PowerTick

LEMMA PowerServes == PowerInv => Power!TypeOK /\ Power!NoLostWakeup /\ Power!OneMeaning
<1> SUFFICES ASSUME PowerInv PROVE Power!TypeOK /\ Power!NoLostWakeup /\ Power!OneMeaning
  OBVIOUS
<1>1. Power!TypeOK /\ Power!NoLostWakeup
  BY DEF PowerInv, PowerTypes, SleepWatched, Power!NoLostWakeup
<1>2. did = {} \/ did = {"dimmed"} \/ did = {"opened"}
  BY DEF PowerInv, PowerTypes, PressMeans
<1>3. Cardinality(did) <= 1
  <2>1. Cardinality({}) = 0
    BY FS_EmptySet
  <2>2. Cardinality({"dimmed"}) = 1 /\ Cardinality({"opened"}) = 1
    BY FS_Singleton
  <2> QED BY <1>2, <2>1, <2>2
<1>4. Power!Cardinality(did) = Cardinality(did)
  BY DEF Power!Cardinality, Cardinality
<1> QED BY <1>1, <1>3, <1>4 DEF Power!OneMeaning

-----------------------------------------------------------------------------
(* The journal and its reports.  The ring holds the end of the history,    *)
(* place by place; an error of this recording is in it, or was, with no    *)
(* start after it; a report on its way has the highest number, and what    *)
(* the gateway keeps under that number is that report.                     *)
EventCodes == {1, 4, 8, 9}
ReportRows == [boot : Nat, sequence : Nat, body : Nat]

AppStates ==
  [state : {"idle", "turn", "noted", "error"}, reported : BOOLEAN, turns : 0 .. MaxReported]
StoredErrors == [ram : {0, 4, 9}, nvs : {0, 4, 9}]
Deliveries ==
  [pending : Nat, active : Nat, sent : Nat, attempts : 0 .. Tries, report : Nat, at : {"look", "post"}]
ReportNumbers == [boot : Nat, sequence : Nat, made : Nat]
Inboxes == [kept : Seq(ReportRows), conflict : BOOLEAN]
Journals == [last : {0, 4, 9}, own : BOOLEAN, head : 0 .. Capacity - 1, count : 0 .. Capacity,
             slots : [0 .. Capacity - 1 -> EventCodes \cup {0}]]

DiagnosticsTypes ==
  /\ app \in AppStates
  /\ diag \in Journals
  /\ history \in Seq(EventCodes)
  /\ stored \in StoredErrors
  /\ delivery \in Deliveries
  /\ reports \in ReportNumbers
  /\ inbox \in Inboxes
  /\ Len(inbox.kept) <= Keep
  /\ faults \in Nat

Place(head, k) == (head + k) % Capacity

RingIsTail(d, h) ==
  /\ d.count <= Len(h)
  /\ \A i \in 1 .. d.count : d.slots[Place(d.head, i - 1)] = h[Len(h) - d.count + i]

(* The last error is the last to be told, or nothing started since.        *)
SinceStart(code, h) ==
  \E i \in DOMAIN h : h[i] = code /\ \A j \in i + 1 .. Len(h) : h[j] # 1

ErrorOfRecording ==
  /\ app.state = "error" => diag.own
  /\ diag.own => SinceStart(diag.last, history)

ReportsNumbered ==
  /\ ~inbox.conflict
  /\ delivery.at = "post" => delivery.report # 0 /\ delivery.attempts < Tries
  /\ \A i \in DOMAIN inbox.kept :
       /\ inbox.kept[i].boot <= reports.boot
       /\ inbox.kept[i].boot = reports.boot =>
            /\ inbox.kept[i].sequence <= reports.sequence
            /\ inbox.kept[i].sequence = reports.sequence /\ delivery.report # 0 =>
                 inbox.kept[i].body = delivery.report

DiagnosticsInv == DiagnosticsTypes /\ RingIsTail(diag, history) /\ ErrorOfRecording /\ ReportsNumbered

LEMMA ModIs ==
  ASSUME NEW c \in Nat \ {0}, NEW a \in 0 .. c + c - 1
  PROVE  a % c = IF a < c THEN a ELSE a - c
<1>1. CASE a < c
  BY <1>1
<1>2. CASE a >= c
  BY <1>2
<1> QED BY <1>1, <1>2

LEMMA CapacityIs == Capacity \in Nat \ {0} /\ Tries \in Nat \ {0} /\ Keep \in Nat \ {0} /\ MaxReported \in Nat
  BY ServicesAssumption DEF Diagnostics!DiagnosticsAssumption

LEMMA PlaceIs ==
  ASSUME NEW head \in 0 .. Capacity - 1, NEW k \in 0 .. Capacity
  PROVE  /\ Place(head, k) \in 0 .. Capacity - 1
         /\ Place(head, k) = IF head + k < Capacity THEN head + k ELSE head + k - Capacity
<1> DEFINE a == head + k
<1>1. a \in 0 .. Capacity + Capacity - 1 /\ Capacity \in Nat \ {0}
  BY CapacityIs
<1> HIDE DEF a
<1>2. a % Capacity = IF a < Capacity THEN a ELSE a - Capacity
  BY <1>1, ModIs
<1>3. Place(head, k) = a % Capacity
  BY DEF Place, a
<1> HIDE DEF Place
<1>4. Place(head, k) = IF a < Capacity THEN a ELSE a - Capacity
  BY <1>2, <1>3
<1> QED BY <1>1, <1>4 DEF a

LEMMA CodesAre ==
  /\ Diagnostics!Started = 1 /\ Diagnostics!Socket = 4 /\ Diagnostics!Completed = 8
  /\ Diagnostics!Failed = 9 /\ Diagnostics!None = 0 /\ Diagnostics!Errors = {4, 9}
  BY DEF Diagnostics!Started, Diagnostics!Socket, Diagnostics!Completed, Diagnostics!Failed,
         Diagnostics!None, Diagnostics!Errors

(* An event more: the ring still holds the end of the history, whether it  *)
(* was full, and lost its oldest event, or not.                            *)
LEMMA AddedIs ==
  ASSUME NEW d \in Journals, NEW h \in Seq(EventCodes), NEW code \in EventCodes, RingIsTail(d, h),
         NEW e, e = Diagnostics!Added(d, code)
  PROVE  /\ e \in Journals
         /\ e.own = (d.own \/ code \in {4, 9})
         /\ e.last = IF code \in {4, 9} THEN code ELSE d.last
         /\ RingIsTail(e, Append(h, code))
<1> DEFINE p == Place(d.head, d.count)
           g == Append(h, code)
<1>t. /\ d.head \in 0 .. Capacity - 1 /\ d.count \in 0 .. Capacity /\ Capacity \in Nat \ {0}
      /\ d.slots \in [0 .. Capacity - 1 -> EventCodes \cup {0}]
      /\ d.last \in {0, 4, 9} /\ d.own \in BOOLEAN
      /\ d.count <= Len(h) /\ Len(h) \in Nat
  BY CapacityIs DEF Journals, RingIsTail
<1>r. \A i \in 1 .. d.count : d.slots[Place(d.head, i - 1)] = h[Len(h) - d.count + i]
  BY DEF RingIsTail
<1>p. p \in 0 .. Capacity - 1
      /\ p = IF d.head + d.count < Capacity THEN d.head + d.count ELSE d.head + d.count - Capacity
  BY <1>t, PlaceIs
<1>h. Diagnostics!Advance(d) = IF d.count = Capacity THEN (IF d.head + 1 < Capacity THEN d.head + 1 ELSE 0) ELSE d.head
  <2>1. Place(d.head, 1) = IF d.head + 1 < Capacity THEN d.head + 1 ELSE d.head + 1 - Capacity
    <3>1. 1 \in 0 .. Capacity
      BY <1>t
    <3> QED BY <3>1, <1>t, PlaceIs
  <2>2. Diagnostics!Advance(d) = IF d.count = Capacity THEN Place(d.head, 1) ELSE d.head
    BY DEF Diagnostics!Advance, Place
  <2> QED BY <1>t, <2>1, <2>2
<1>e. e = [last  |-> IF code \in {4, 9} THEN code ELSE d.last,
           own   |-> d.own \/ code \in {4, 9},
           head  |-> Diagnostics!Advance(d),
           count |-> IF d.count = Capacity THEN d.count ELSE d.count + 1,
           slots |-> [d.slots EXCEPT ![p] = code]]
  BY CodesAre DEF Diagnostics!Added, Place
<1>g. /\ g \in Seq(EventCodes) /\ Len(g) = Len(h) + 1 /\ g[Len(h) + 1] = code
      /\ \A i \in 1 .. Len(h) : g[i] = h[i]
  OBVIOUS
<1> HIDE DEF p, g
<1>1. /\ e.last = IF code \in {4, 9} THEN code ELSE d.last
      /\ e.own = (d.own \/ code \in {4, 9})
      /\ e.head = Diagnostics!Advance(d)
      /\ e.count = IF d.count = Capacity THEN d.count ELSE d.count + 1
      /\ e.slots = [d.slots EXCEPT ![p] = code]
  BY <1>e
<1>s. /\ e.slots \in [0 .. Capacity - 1 -> EventCodes \cup {0}] /\ e.slots[p] = code
      /\ \A i \in 0 .. Capacity - 1 : i # p => e.slots[i] = d.slots[i]
  BY <1>1, <1>t, <1>p
<1>2. e \in Journals
  <2>1. e.last \in {0, 4, 9} /\ e.own \in BOOLEAN
    BY <1>1, <1>t DEF EventCodes
  <2>2. e.head \in 0 .. Capacity - 1 /\ e.count \in 0 .. Capacity
    BY <1>1, <1>t, <1>h
  <2> QED BY <1>e, <1>1, <1>s, <2>1, <2>2 DEF Journals
<1>r1. SUFFICES \A i \in 1 .. e.count : e.slots[Place(e.head, i - 1)] = g[Len(g) - e.count + i]
  <2>1. e.count <= Len(g)
    BY <1>1, <1>g, <1>t
  <2> QED BY <1>1, <1>2, <2>1 DEF RingIsTail, g
<1>r2. SUFFICES ASSUME NEW i \in 1 .. e.count
               PROVE  e.slots[Place(e.head, i - 1)] = g[Len(g) - e.count + i]
  OBVIOUS
<1> DEFINE q == Place(e.head, i - 1)
<1>q. /\ i \in 1 .. Capacity /\ e.head \in 0 .. Capacity - 1 /\ q \in 0 .. Capacity - 1
      /\ q = IF e.head + (i - 1) < Capacity THEN e.head + (i - 1) ELSE e.head + (i - 1) - Capacity
  <2>1. e.head \in 0 .. Capacity - 1 /\ e.count \in 0 .. Capacity
    BY <1>2 DEF Journals
  <2>2. i \in 1 .. Capacity /\ i - 1 \in 0 .. Capacity
    BY <2>1, <1>t
  <2> QED BY <2>1, <2>2, PlaceIs
<1> HIDE DEF q
<1>3. CASE d.count < Capacity
  <2>1. e.head = d.head /\ e.count = d.count + 1
    BY <1>1, <1>3, <1>h, <1>t
  <2>2. CASE i = d.count + 1
    <3>1. q = p
      BY <1>q, <2>1, <2>2, <1>p, <1>t
    <3>2. Len(g) - e.count + i = Len(h) + 1
      BY <2>1, <2>2, <1>g, <1>t
    <3> QED BY <3>1, <3>2, <1>s, <1>g DEF q
  <2>3. CASE i \in 1 .. d.count
    <3>1. q # p
      BY <1>q, <2>1, <2>3, <1>3, <1>p, <1>t
    <3> DEFINE k == Len(h) - d.count + i
    <3>2. k \in 1 .. Len(h) /\ k = Len(g) - e.count + i
      <4>1. Len(g) = Len(h) + 1 /\ Len(h) \in Nat /\ d.count \in Nat /\ d.count <= Len(h)
        BY <1>g, <1>t
      <4> QED BY <4>1, <2>1, <2>3
    <3>3. d.slots[q] = h[k]
      BY <2>1, <2>3, <1>r DEF q
    <3> HIDE DEF k
    <3>4. g[k] = h[k] /\ e.slots[q] = d.slots[q]
      BY <3>1, <3>2, <1>g, <1>q, <1>s
    <3> QED BY <3>2, <3>3, <3>4 DEF q
  <2> QED BY <2>1, <2>2, <2>3, <1>t
<1>4. CASE d.count = Capacity
  <2>1. e.count = Capacity /\ p = d.head
        /\ e.head = IF d.head + 1 < Capacity THEN d.head + 1 ELSE 0
    BY <1>1, <1>4, <1>h, <1>p, <1>t
  <2>2. CASE i = Capacity
    <3>1. q = p
      BY <1>q, <2>1, <2>2, <1>t
    <3>2. Len(g) - e.count + i = Len(h) + 1
      BY <2>1, <2>2, <1>g, <1>t
    <3> QED BY <3>1, <3>2, <1>s, <1>g DEF q
  <2>3. CASE i \in 1 .. Capacity - 1
    <3> DEFINE r == Place(d.head, i)
               k == Len(h) - d.count + (i + 1)
    <3>1. r = IF d.head + i < Capacity THEN d.head + i ELSE d.head + i - Capacity
      <4>1. i \in 0 .. Capacity
        BY <2>3, <1>t
      <4> QED BY <4>1, <1>t, PlaceIs
    <3>2. d.slots[r] = h[k]
      <4>1. i + 1 \in 1 .. d.count /\ (i + 1) - 1 = i
        BY <2>3, <1>4, <1>t
      <4> QED BY <4>1, <1>r
    <3>3. k \in 1 .. Len(h) /\ k = Len(g) - e.count + i
      <4>1. /\ Len(g) = Len(h) + 1 /\ Len(h) \in Nat /\ d.count \in Nat /\ d.count <= Len(h)
            /\ d.count = Capacity /\ e.count = Capacity
        BY <1>4, <2>1, <1>g, <1>t
      <4> QED BY <4>1, <2>3
    <3> HIDE DEF r, k
    <3>4. q = r /\ q # p
      <4>1. CASE d.head + 1 < Capacity
        <5>1. e.head = d.head + 1 /\ e.head + (i - 1) = d.head + i
          BY <4>1, <2>1, <1>t, <2>3
        <5>2. q = IF d.head + i < Capacity THEN d.head + i ELSE d.head + i - Capacity
          <6>1. CASE d.head + i < Capacity
            BY <5>1, <6>1, <1>q, <1>t
          <6>2. CASE d.head + i >= Capacity
            BY <5>1, <6>2, <1>q, <1>t
          <6> QED BY <6>1, <6>2, <1>t
        <5>3. q # d.head
          BY <5>2, <2>3, <1>t
        <5> QED BY <5>2, <5>3, <3>1, <2>1
      <4>2. CASE d.head + 1 = Capacity
        <5>1. e.head = 0 /\ e.head + (i - 1) = i - 1 /\ i - 1 < Capacity
          BY <4>2, <2>1, <1>t, <2>3
        <5>2. q = i - 1
          BY <5>1, <1>q
        <5>3. r = i - 1 /\ i - 1 # d.head
          BY <4>2, <3>1, <2>3, <1>t
        <5> QED BY <5>2, <5>3, <2>1
      <4> QED BY <4>1, <4>2, <1>t
    <3>5. g[k] = h[k] /\ e.slots[q] = d.slots[q]
      BY <3>3, <3>4, <1>g, <1>q, <1>s
    <3> QED BY <3>2, <3>3, <3>4, <3>5 DEF q
  <2> QED BY <1>q, <2>2, <2>3, <1>t
<1> QED BY <1>3, <1>4, <1>t

LEMMA StartKept ==
  ASSUME NEW h \in Seq(EventCodes), NEW code, NEW x \in EventCodes, x # 1, SinceStart(code, h)
  PROVE  SinceStart(code, Append(h, x))
<1> DEFINE g == Append(h, x)
<1>1. PICK i \in 1 .. Len(h) : h[i] = code /\ \A j \in i + 1 .. Len(h) : h[j] # 1
  BY DEF SinceStart
<1>2. /\ Len(g) = Len(h) + 1 /\ g[Len(h) + 1] = x /\ DOMAIN g = 1 .. Len(g)
      /\ \A j \in 1 .. Len(h) : g[j] = h[j]
  OBVIOUS
<1>3. Len(h) \in Nat
  OBVIOUS
<1> HIDE DEF g
<1>4. i \in DOMAIN g /\ g[i] = code
  BY <1>1, <1>2, <1>3
<1>5. ASSUME NEW j \in i + 1 .. Len(g) PROVE g[j] # 1
  <2>1. CASE j = Len(h) + 1
    BY <2>1, <1>2
  <2>2. CASE j \in i + 1 .. Len(h)
    <3>1. j \in 1 .. Len(h)
      BY <1>1, <1>3, <2>2
    <3> QED BY <3>1, <2>2, <1>1, <1>2
  <2> QED BY <2>1, <2>2, <1>1, <1>2, <1>3
<1>6. SinceStart(code, g)
  BY <1>4, <1>5 DEF SinceStart
<1> QED BY <1>6 DEF g

LEMMA StartNew ==
  ASSUME NEW h \in Seq(EventCodes), NEW x \in EventCodes
  PROVE  SinceStart(x, Append(h, x))
<1> DEFINE g == Append(h, x)
<1>1. Len(g) = Len(h) + 1 /\ g[Len(h) + 1] = x /\ DOMAIN g = 1 .. Len(g) /\ Len(h) \in Nat
  OBVIOUS
<1> HIDE DEF g
<1>2. Len(h) + 1 \in DOMAIN g /\ \A j \in (Len(h) + 1) + 1 .. Len(g) : g[j] # 1
  BY <1>1
<1>3. SinceStart(x, g)
  BY <1>1, <1>2 DEF SinceStart
<1> QED BY <1>3 DEF g

(* DiagnosticsStore.save adds the report or finds it there already; it     *)
(* never finds another one.                                                *)
LEMMA SavedIs ==
  ASSUME DiagnosticsInv, delivery.at = "post"
  PROVE  /\ Diagnostics!Saved \in Inboxes
         /\ Len(Diagnostics!Saved.kept) <= Keep
         /\ ~Diagnostics!Saved.conflict
         /\ \A i \in DOMAIN Diagnostics!Saved.kept :
              \/ Diagnostics!Saved.kept[i] = Diagnostics!Row
              \/ \E j \in DOMAIN inbox.kept : Diagnostics!Saved.kept[i] = inbox.kept[j]
<1> DEFINE kept == inbox.kept
           row == Diagnostics!Row
<1>t. /\ inbox \in Inboxes /\ kept \in Seq(ReportRows)
      /\ Len(kept) <= Keep /\ inbox.conflict = FALSE /\ delivery.report # 0
      /\ reports.boot \in Nat /\ reports.sequence \in Nat /\ delivery.report \in Nat
  <2>1. inbox \in Inboxes /\ reports \in ReportNumbers /\ delivery \in Deliveries /\ Len(kept) <= Keep
    BY DEF DiagnosticsInv, DiagnosticsTypes
  <2>2. inbox.conflict = FALSE /\ delivery.report # 0
    BY <2>1 DEF DiagnosticsInv, ReportsNumbered, Inboxes
  <2> QED BY <2>1, <2>2 DEF Inboxes, ReportNumbers, Deliveries
<1>r. /\ row = [boot |-> reports.boot, sequence |-> reports.sequence, body |-> delivery.report]
      /\ row \in ReportRows
  BY <1>t DEF Diagnostics!Row, ReportRows
<1>1. CASE Diagnostics!Old = {}
  <2> DEFINE added == Append(kept, row)
             next == IF Len(added) > Keep THEN Tail(added) ELSE added
  <2>1. Diagnostics!Saved = [inbox EXCEPT !.kept = next]
    BY <1>1 DEF Diagnostics!Saved, Diagnostics!Kept
  <2>2. /\ added \in Seq(ReportRows) /\ Len(added) = Len(kept) + 1 /\ Len(kept) \in Nat
        /\ \A i \in 1 .. Len(added) : added[i] = row \/ \E j \in DOMAIN kept : added[i] = kept[j]
    BY <1>t, <1>r
  <2>3. /\ next \in Seq(ReportRows) /\ Len(next) <= Keep
        /\ \A i \in DOMAIN next : \E j \in 1 .. Len(added) : next[i] = added[j]
    <3> HIDE DEF added
    <3>1. CASE Len(added) > Keep
      <4>1. next = Tail(added) /\ added # << >>
        BY <2>2, <3>1
      <4>2. Tail(added) \in Seq(ReportRows) /\ Len(Tail(added)) = Len(added) - 1
            /\ DOMAIN Tail(added) = 1 .. Len(added) - 1
            /\ \A i \in 1 .. Len(added) - 1 : Tail(added)[i] = added[i + 1]
        BY <2>2, <4>1
      <4>3. \A i \in 1 .. Len(added) - 1 : i + 1 \in 1 .. Len(added)
        BY <2>2
      <4>4. Len(next) <= Keep
        BY <1>t, <2>2, <4>1, <4>2, CapacityIs
      <4>5. \A i \in DOMAIN next : \E j \in 1 .. Len(added) : next[i] = added[j]
        BY <4>1, <4>2, <4>3
      <4> QED BY <4>1, <4>2, <4>4, <4>5
    <3>2. CASE Len(added) <= Keep
      <4>1. next = added
        BY <2>2, <3>2, CapacityIs
      <4> QED BY <2>2, <3>2, <4>1
    <3> QED BY <2>2, <3>1, <3>2, CapacityIs
  <2> HIDE DEF next
  <2>4. Diagnostics!Saved.kept = next /\ Diagnostics!Saved.conflict = FALSE
        /\ Diagnostics!Saved \in Inboxes
    BY <1>t, <2>1, <2>3 DEF Inboxes
  <2>5. \A i \in DOMAIN next : next[i] = row \/ \E j \in DOMAIN kept : next[i] = kept[j]
    BY <2>2, <2>3
  <2> QED BY <2>3, <2>4, <2>5
<1>2. CASE Diagnostics!Old # {}
  <2>1. Diagnostics!Saved = [inbox EXCEPT !.conflict = inbox.conflict \/ \E i \in Diagnostics!Old : inbox.kept[i] # row]
    BY <1>2 DEF Diagnostics!Saved
  <2>2. ASSUME NEW i \in Diagnostics!Old PROVE kept[i] = row
    <3>1. i \in DOMAIN kept /\ kept[i].boot = reports.boot /\ kept[i].sequence = reports.sequence
      BY <1>r DEF Diagnostics!Old, Diagnostics!Same
    <3>2. kept[i].body = delivery.report
      BY <1>t, <3>1 DEF DiagnosticsInv, ReportsNumbered
    <3>3. kept[i] \in ReportRows
      BY <1>t, <3>1
    <3> HIDE DEF kept, row
    <3> QED BY <1>r, <3>1, <3>2, <3>3 DEF ReportRows
  <2>3. Diagnostics!Saved = [inbox EXCEPT !.conflict = FALSE]
    BY <1>t, <2>1, <2>2
  <2>4. [inbox EXCEPT !.conflict = FALSE] = inbox
    BY <1>t DEF Inboxes
  <2> QED BY <1>t, <2>3, <2>4
<1> QED BY <1>1, <1>2

LEMMA DiagnosticsInit == Diagnostics!Init => DiagnosticsInv
<1> SUFFICES ASSUME Diagnostics!Init PROVE DiagnosticsInv
  OBVIOUS
<1>1. /\ app = [state |-> "idle", reported |-> FALSE, turns |-> 0]
      /\ diag = Diagnostics!Empty /\ history = << >>
      /\ stored = [ram |-> 0, nvs |-> 0]
      /\ delivery = [pending |-> 0, active |-> 0, sent |-> 0, attempts |-> 0, report |-> 0, at |-> "look"]
      /\ reports = [boot |-> 0, sequence |-> 0, made |-> 0]
      /\ inbox = [kept |-> << >>, conflict |-> FALSE] /\ faults = 0
  BY CodesAre DEF Diagnostics!Init, Diagnostics!Delivery
<1>2. diag \in Journals /\ diag.count = 0 /\ diag.own = FALSE
  BY <1>1, CodesAre, CapacityIs DEF Diagnostics!Empty, Journals
<1>3. DiagnosticsTypes
  <2>1. app \in AppStates
    BY <1>1, CapacityIs DEF AppStates
  <2>2. delivery \in Deliveries
    <3>1. 0 \in 0 .. Tries
      BY CapacityIs
    <3> QED BY <1>1, <3>1 DEF Deliveries
  <2> QED BY <1>1, <1>2, <2>1, <2>2, CapacityIs
           DEF DiagnosticsTypes, StoredErrors, ReportNumbers, Inboxes
<1>4. RingIsTail(diag, history)
  BY <1>1, <1>2 DEF RingIsTail
<1> QED BY <1>1, <1>2, <1>3, <1>4 DEF DiagnosticsInv, ErrorOfRecording, ReportsNumbered

LEMMA DiagnosticsKeep ==
  ASSUME DiagnosticsInv, [Diagnostics!Next]_(Diagnostics!diagVars)
  PROVE  DiagnosticsInv'
<1>t. /\ app \in AppStates
      /\ diag \in Journals /\ history \in Seq(EventCodes)
      /\ stored \in StoredErrors
      /\ delivery \in Deliveries
      /\ reports \in ReportNumbers
      /\ inbox \in Inboxes
      /\ Len(inbox.kept) <= Keep /\ faults \in Nat
      /\ RingIsTail(diag, history)
  BY DEF DiagnosticsInv, DiagnosticsTypes, AppStates, StoredErrors, Deliveries, ReportNumbers, Inboxes
<1>e. /\ app.state = "error" => diag.own
      /\ diag.own => SinceStart(diag.last, history)
  BY DEF DiagnosticsInv, ErrorOfRecording
<1>n. ReportsNumbered
  BY DEF DiagnosticsInv
<1>r. reports.boot \in Nat /\ reports.sequence \in Nat /\ reports.made \in Nat
  BY <1>t DEF ReportNumbers
<1>k. \A i \in DOMAIN inbox.kept : inbox.kept[i].boot \in Nat /\ inbox.kept[i].sequence \in Nat
  <2> DEFINE kept == inbox.kept
  <2>1. kept \in Seq(ReportRows)
    BY <1>t DEF Inboxes
  <2> HIDE DEF kept
  <2>2. \A i \in DOMAIN kept : kept[i].boot \in Nat /\ kept[i].sequence \in Nat
    <3>1. \A i \in DOMAIN kept : kept[i] \in ReportRows
      BY <2>1
    <3> QED BY <3>1 DEF ReportRows
  <2> QED BY <2>2 DEF kept
(* The main loop writes the journal and leaves the reports alone.          *)
<1>a. ASSUME app' \in AppStates,
             diag' \in Journals, history' \in Seq(EventCodes), RingIsTail(diag', history'),
             app'.state = "error" => diag'.own,
             diag'.own => SinceStart(diag'.last, history'),
             UNCHANGED <<stored, delivery, reports, inbox, faults>>
      PROVE  DiagnosticsInv'
  <2>1. DiagnosticsTypes'
    BY <1>t, <1>a DEF DiagnosticsTypes
  <2>2. ReportsNumbered'
    BY <1>n, <1>a DEF ReportsNumbered
  <2> QED BY <1>a, <2>1, <2>2 DEF DiagnosticsInv, ErrorOfRecording
(* The delivery task leaves the journal alone.                             *)
<1>d. ASSUME UNCHANGED <<app, diag, history, stored, faults>>,
             delivery' \in Deliveries,
             reports' \in ReportNumbers,
             inbox' \in Inboxes,
             Len(inbox'.kept) <= Keep, ReportsNumbered'
      PROVE  DiagnosticsInv'
  <2>1. DiagnosticsTypes'
    BY <1>t, <1>d DEF DiagnosticsTypes
  <2>2. RingIsTail(diag, history)' /\ ErrorOfRecording'
    BY <1>t, <1>e, <1>d DEF RingIsTail, ErrorOfRecording
  <2> QED BY <1>d, <2>1, <2>2 DEF DiagnosticsInv
<1>1. CASE Diagnostics!Begin
  <2> DEFINE d == [diag EXCEPT !.own = FALSE]
  <2>1. /\ app.turns < MaxReported /\ app' = [app EXCEPT !.state = "turn", !.turns = app.turns + 1]
        /\ diag' = Diagnostics!Added(d, 1) /\ history' = Append(history, 1)
        /\ UNCHANGED <<stored, delivery, reports, inbox, faults>>
    BY <1>1, CodesAre DEF Diagnostics!Begin, Diagnostics!Log
  <2>2. /\ d \in Journals /\ d.own = FALSE /\ d.head = diag.head /\ d.count = diag.count
        /\ d.slots = diag.slots
    BY <1>t DEF Journals
  <2> HIDE DEF d
  <2>3. RingIsTail(d, history) /\ 1 \in EventCodes
    BY <1>t, <2>2 DEF RingIsTail, EventCodes
  <2>4. /\ diag' \in Journals /\ diag'.own = (d.own \/ 1 \in {4, 9}) /\ RingIsTail(diag', history')
    BY <1>t, <2>1, <2>2, <2>3, AddedIs
  <2>8. diag'.own = FALSE
    <3>1. diag'.own = (FALSE \/ FALSE)
      BY <2>2, <2>4
    <3> QED BY <3>1
  <2>5. app.turns + 1 \in 0 .. MaxReported
    BY <1>t, <2>1, CapacityIs DEF AppStates
  <2>6. app' \in AppStates
        /\ app'.state = "turn"
    BY <1>t, <2>1, <2>5 DEF AppStates
  <2>7. history' \in Seq(EventCodes)
    BY <1>t, <2>1, <2>3
  <2> QED BY <1>a, <2>1, <2>4, <2>6, <2>7, <2>8
<1>2. CASE Diagnostics!Note(4) \/ Diagnostics!Note(8)
  <2>1. PICK code \in {4, 8} :
          /\ app' = [app EXCEPT !.state = "noted"]
          /\ diag' = Diagnostics!Added(diag, code) /\ history' = Append(history, code)
          /\ UNCHANGED <<stored, delivery, reports, inbox, faults>>
    BY <1>2 DEF Diagnostics!Note, Diagnostics!Log
  <2>2. code \in EventCodes /\ code # 1 /\ history' \in Seq(EventCodes)
    BY <1>t, <2>1 DEF EventCodes
  <2>3. /\ diag' \in Journals /\ diag'.own = (diag.own \/ code \in {4, 9})
        /\ diag'.last = (IF code \in {4, 9} THEN code ELSE diag.last) /\ RingIsTail(diag', history')
    BY <1>t, <2>1, <2>2, AddedIs
  <2>4. app' \in AppStates
        /\ app'.state = "noted"
    BY <1>t, <2>1 DEF AppStates
  <2>5. diag'.own => SinceStart(diag'.last, history')
    <3>1. CASE code = 4
      BY <3>1, <1>t, <2>1, <2>2, <2>3, StartNew
    <3>2. CASE code = 8
      <4>1. diag'.own = diag.own /\ diag'.last = diag.last
        BY <3>2, <2>3, <1>t DEF Journals
      <4> QED BY <4>1, <1>t, <1>e, <2>1, <2>2, StartKept
    <3> QED BY <2>1, <3>1, <3>2
  <2> QED BY <1>a, <2>1, <2>2, <2>3, <2>4, <2>5
<1>3. CASE Diagnostics!Fail
  <2>1. /\ app' = [app EXCEPT !.state = "error"]
        /\ UNCHANGED <<stored, delivery, reports, inbox, faults>>
        /\ \/ ~diag.own /\ diag' = Diagnostics!Added(diag, 9) /\ history' = Append(history, 9)
           \/ diag.own /\ UNCHANGED <<diag, history>>
    BY <1>3, CodesAre DEF Diagnostics!Fail, Diagnostics!Log
  <2>2. app' \in AppStates
    BY <1>t, <2>1 DEF AppStates
  <2>3. CASE ~diag.own /\ diag' = Diagnostics!Added(diag, 9) /\ history' = Append(history, 9)
    <3>1. 9 \in EventCodes /\ history' \in Seq(EventCodes)
      BY <1>t, <2>3 DEF EventCodes
    <3>2. /\ diag' \in Journals /\ diag'.own = (diag.own \/ 9 \in {4, 9})
          /\ diag'.last = (IF 9 \in {4, 9} THEN 9 ELSE diag.last) /\ RingIsTail(diag', history')
      BY <1>t, <2>3, <3>1, AddedIs
    <3>4. diag'.own /\ diag'.last = 9
      BY <3>2
    <3>3. SinceStart(9, history')
      BY <1>t, <2>3, <3>1, StartNew
    <3> QED BY <1>a, <2>1, <2>2, <3>1, <3>2, <3>3, <3>4
  <2>4. CASE diag.own /\ UNCHANGED <<diag, history>>
    BY <1>a, <1>t, <1>e, <2>1, <2>2, <2>4
  <2> QED BY <2>1, <2>3, <2>4
<1>4. CASE Diagnostics!ToIdle
  <2>1. /\ app' = [app EXCEPT !.state = "idle", !.reported = FALSE]
        /\ diag' = [diag EXCEPT !.own = FALSE]
        /\ UNCHANGED <<history, stored, delivery, reports, inbox, faults>>
    BY <1>4 DEF Diagnostics!ToIdle
  <2>2. app' \in AppStates
        /\ app'.state = "idle"
    BY <1>t, <2>1 DEF AppStates
  <2>3. /\ diag' \in Journals /\ diag'.own = FALSE /\ diag'.head = diag.head /\ diag'.count = diag.count
        /\ diag'.slots = diag.slots
    BY <1>t, <2>1 DEF Journals
  <2>4. RingIsTail(diag', history')
    BY <1>t, <2>1, <2>3 DEF RingIsTail
  <2> QED BY <1>a, <1>t, <2>1, <2>2, <2>3, <2>4
<1>5. CASE Diagnostics!Report(TRUE) \/ Diagnostics!Report(FALSE)
  <2>1. /\ app.state = "error" /\ app' = [app EXCEPT !.reported = TRUE]
        /\ stored' = stored \/ stored' = [ram |-> diag.last, nvs |-> diag.last]
        /\ delivery' = [delivery EXCEPT !.pending = delivery.pending + 1]
        /\ faults' \in {faults, faults + 1}
        /\ UNCHANGED <<diag, history, reports, inbox>>
    BY <1>5 DEF Diagnostics!Report
  <2>2. /\ app' \in AppStates
        /\ app'.state = app.state
    BY <1>t, <2>1 DEF AppStates
  <2>3. /\ delivery' \in Deliveries
        /\ delivery'.at = delivery.at /\ delivery'.report = delivery.report
        /\ delivery'.attempts = delivery.attempts
    BY <1>t, <2>1 DEF Deliveries
  <2>4. stored' \in StoredErrors
    <3>1. diag.last \in {0, 4, 9}
      BY <1>t DEF Journals
    <3> QED BY <1>t, <2>1, <3>1 DEF StoredErrors
  <2>5. DiagnosticsTypes'
    BY <1>t, <2>1, <2>2, <2>3, <2>4 DEF DiagnosticsTypes
  <2>6. ReportsNumbered'
    BY <1>n, <2>1, <2>3 DEF ReportsNumbered
  <2>7. RingIsTail(diag, history)' /\ ErrorOfRecording'
    BY <1>t, <1>e, <2>1, <2>2 DEF RingIsTail, ErrorOfRecording
  <2> QED BY <2>5, <2>6, <2>7 DEF DiagnosticsInv
<1>6. CASE Diagnostics!Observe
  <2>1. /\ delivery.at = "look"
        /\ delivery' = [delivery EXCEPT !.active = delivery.pending, !.attempts = 0, !.report = 0]
        /\ UNCHANGED <<app, diag, history, stored, reports, inbox, faults>>
    BY <1>6 DEF Diagnostics!Observe, Diagnostics!Look
  <2>2. 0 \in 0 .. Tries
    BY CapacityIs
  <2>3. /\ delivery' \in Deliveries
        /\ delivery'.at = "look" /\ delivery'.report = 0
    BY <1>t, <2>1, <2>2 DEF Deliveries
  <2>4. ReportsNumbered'
    BY <1>n, <2>1, <2>3 DEF ReportsNumbered
  <2> QED BY <1>d, <1>t, <2>1, <2>3, <2>4
<1>7. CASE Diagnostics!Try
  <2>1. /\ delivery.attempts < Tries /\ UNCHANGED <<app, diag, history, stored, inbox, faults>>
        /\ \/ delivery.report # 0 /\ delivery' = [delivery EXCEPT !.at = "post"] /\ UNCHANGED reports
           \/ /\ reports' = [reports EXCEPT !.sequence = reports.sequence + 1, !.made = reports.made + 1]
              /\ delivery' = [delivery EXCEPT !.at = "post", !.report = reports'.made]
    BY <1>7 DEF Diagnostics!Try, Diagnostics!Due
  <2>2. CASE delivery.report # 0 /\ delivery' = [delivery EXCEPT !.at = "post"] /\ UNCHANGED reports
    <3>1. /\ delivery' \in Deliveries
          /\ delivery'.report = delivery.report /\ delivery'.attempts = delivery.attempts
      BY <1>t, <2>2 DEF Deliveries
    <3>2. ReportsNumbered'
      BY <1>n, <2>1, <2>2, <3>1 DEF ReportsNumbered
    <3> QED BY <1>d, <1>t, <2>1, <2>2, <3>1, <3>2
  <2>3. CASE /\ reports' = [reports EXCEPT !.sequence = reports.sequence + 1, !.made = reports.made + 1]
             /\ delivery' = [delivery EXCEPT !.at = "post", !.report = reports'.made]
    <3>1. /\ reports' \in ReportNumbers
          /\ reports'.boot = reports.boot /\ reports'.sequence = reports.sequence + 1
          /\ reports'.made = reports.made + 1
      <4>1. reports.sequence + 1 \in Nat /\ reports.made + 1 \in Nat
        BY <1>r
      <4> QED BY <1>t, <2>3, <4>1 DEF ReportNumbers
    <3>2. reports'.made \in Nat /\ reports'.made # 0
      BY <1>r, <3>1
    <3>3. /\ delivery' \in Deliveries
          /\ delivery'.report # 0 /\ delivery'.attempts = delivery.attempts
      BY <1>t, <2>3, <3>2 DEF Deliveries
    <3>4. ASSUME NEW i \in DOMAIN inbox.kept, inbox.kept[i].boot = reports.boot
          PROVE  inbox.kept[i].sequence < reports'.sequence
      <4>1. inbox.kept[i].sequence \in Nat /\ inbox.kept[i].sequence <= reports.sequence
        BY <1>n, <1>k, <3>4 DEF ReportsNumbered
      <4> QED BY <1>r, <3>1, <4>1
    <3>5. ASSUME NEW i \in DOMAIN inbox.kept, inbox.kept[i].boot = reports.boot
          PROVE  inbox.kept[i].sequence <= reports'.sequence /\ inbox.kept[i].sequence # reports'.sequence
      <4>1. inbox.kept[i].sequence \in Nat /\ reports'.sequence \in Nat
        BY <1>k, <3>1 DEF ReportNumbers
      <4> QED BY <3>4, <3>5, <4>1
    <3>6. ReportsNumbered'
      BY <1>n, <2>1, <3>1, <3>3, <3>5 DEF ReportsNumbered
    <3> QED BY <1>d, <1>t, <2>1, <3>1, <3>3, <3>6
  <2> QED BY <2>1, <2>2, <2>3
<1>8. CASE Diagnostics!Post
  <2>1. /\ delivery.at = "post" /\ UNCHANGED <<app, diag, history, stored, reports, faults>>
        /\ inbox' = inbox \/ inbox' = Diagnostics!Saved
        /\ \E told \in BOOLEAN : delivery' = Diagnostics!Tried(told)
    BY <1>8 DEF Diagnostics!Post
  <2>2. PICK told \in BOOLEAN :
          delivery' = [delivery EXCEPT !.at = "look", !.attempts = delivery.attempts + 1,
                                       !.sent = IF told THEN delivery.active ELSE delivery.sent]
    BY <2>1 DEF Diagnostics!Tried
  <2>3. delivery.attempts + 1 \in 0 .. Tries
    <3>1. delivery.attempts \in 0 .. Tries /\ delivery.attempts < Tries
      BY <1>t, <1>n, <2>1 DEF Deliveries, ReportsNumbered
    <3> QED BY <3>1, CapacityIs
  <2>4. (IF told THEN delivery.active ELSE delivery.sent) \in Nat
    BY <1>t DEF Deliveries
  <2>5. /\ delivery' \in Deliveries
        /\ delivery'.at = "look" /\ delivery'.report = delivery.report
    BY <1>t, <2>2, <2>3, <2>4 DEF Deliveries
  <2>6. CASE inbox' = inbox
    <3>1. ReportsNumbered'
      BY <1>n, <2>1, <2>5, <2>6 DEF ReportsNumbered
    <3> QED BY <1>d, <1>t, <2>1, <2>5, <2>6, <3>1
  <2>7. CASE inbox' = Diagnostics!Saved
    <3>1. /\ inbox' \in Inboxes
          /\ Len(inbox'.kept) <= Keep /\ ~inbox'.conflict
          /\ \A i \in DOMAIN inbox'.kept :
               \/ inbox'.kept[i] = Diagnostics!Row
               \/ \E j \in DOMAIN inbox.kept : inbox'.kept[i] = inbox.kept[j]
      BY <2>1, <2>7, SavedIs DEF Inboxes
    <3>2. /\ Diagnostics!Row.boot = reports.boot /\ Diagnostics!Row.sequence = reports.sequence
          /\ Diagnostics!Row.body = delivery.report
      BY DEF Diagnostics!Row
    <3>3. reports.boot <= reports.boot /\ reports.sequence <= reports.sequence
      BY <1>r
    <3>4. ReportsNumbered'
      BY <1>n, <2>1, <2>5, <3>1, <3>2, <3>3 DEF ReportsNumbered
    <3> QED BY <1>d, <1>t, <2>1, <2>5, <3>1, <3>4
  <2> QED BY <2>1, <2>6, <2>7
<1>9. CASE Diagnostics!Reboot
  <2>1. /\ app' = [app EXCEPT !.state = "idle", !.reported = FALSE]
        /\ diag' = [Diagnostics!Empty EXCEPT !.last = stored.nvs] /\ history' = << >>
        /\ stored' = [stored EXCEPT !.ram = stored.nvs]
        /\ delivery' = Diagnostics!Delivery(IF stored.nvs = 0 THEN 0 ELSE 1)
        /\ reports' = [reports EXCEPT !.boot = reports.boot + 1, !.sequence = 0]
        /\ inbox' = inbox /\ faults' = faults + 1
    BY <1>9, CodesAre DEF Diagnostics!Reboot
  <2>2. app' \in AppStates
        /\ app'.state = "idle"
    BY <1>t, <2>1 DEF AppStates
  <2>3. stored.nvs \in {0, 4, 9} /\ stored' \in StoredErrors
    BY <1>t, <2>1 DEF StoredErrors
  <2>4. diag' \in Journals /\ diag'.own = FALSE /\ diag'.count = 0
    <3>1. diag' = [last |-> stored.nvs, own |-> FALSE, head |-> 0, count |-> 0,
                   slots |-> [i \in 0 .. Capacity - 1 |-> 0]]
      BY <2>1, CodesAre DEF Diagnostics!Empty
    <3> QED BY <2>3, <3>1, CapacityIs DEF Journals
  <2>5. RingIsTail(diag', history') /\ history' \in Seq(EventCodes)
    BY <2>1, <2>4 DEF RingIsTail
  <2>6. /\ delivery' \in Deliveries
        /\ delivery'.at = "look" /\ delivery'.report = 0
    <3>1. PICK n \in {0, 1} : delivery' = [pending |-> n, active |-> 0, sent |-> 0, attempts |-> 0,
                                           report |-> 0, at |-> "look"]
      BY <2>1 DEF Diagnostics!Delivery
    <3>2. 0 \in 0 .. Tries
      BY CapacityIs
    <3> QED BY <3>1, <3>2 DEF Deliveries
  <2>7. reports' \in ReportNumbers /\ reports'.boot = reports.boot + 1
    <3>1. reports.boot + 1 \in Nat /\ 0 \in Nat
      BY <1>r
    <3> QED BY <1>t, <2>1, <3>1 DEF ReportNumbers
  <2>8. DiagnosticsTypes'
    BY <1>t, <2>1, <2>2, <2>3, <2>4, <2>5, <2>6, <2>7 DEF DiagnosticsTypes
  <2>9. ASSUME NEW i \in DOMAIN inbox.kept
        PROVE  inbox.kept[i].boot <= reports'.boot /\ inbox.kept[i].boot # reports'.boot
    <3>1. inbox.kept[i].boot \in Nat /\ inbox.kept[i].boot <= reports.boot
      BY <1>n, <1>k DEF ReportsNumbered
    <3> QED BY <1>r, <2>7, <3>1
  <2>10. ReportsNumbered'
    BY <1>n, <2>1, <2>6, <2>9 DEF ReportsNumbered
  <2> QED BY <2>2, <2>4, <2>5, <2>8, <2>10 DEF DiagnosticsInv, ErrorOfRecording
<1>10. CASE Diagnostics!NetChanges
  <2>1. faults' = faults + 1 /\ UNCHANGED <<app, diag, history, stored, delivery, reports, inbox>>
    BY <1>10 DEF Diagnostics!NetChanges
  <2>2. DiagnosticsTypes'
    BY <1>t, <2>1 DEF DiagnosticsTypes
  <2> QED BY <1>t, <1>e, <1>n, <2>1, <2>2 DEF DiagnosticsInv, RingIsTail, ErrorOfRecording, ReportsNumbered
<1>11. CASE UNCHANGED Diagnostics!diagVars
  <2>1. UNCHANGED <<app, diag, history, stored, delivery, reports, inbox, faults>>
    BY <1>11 DEF Diagnostics!diagVars
  <2>2. DiagnosticsTypes'
    BY <1>t, <2>1 DEF DiagnosticsTypes
  <2> QED BY <1>t, <1>e, <1>n, <2>1, <2>2 DEF DiagnosticsInv, RingIsTail, ErrorOfRecording, ReportsNumbered
<1> QED BY <1>1, <1>2, <1>3, <1>4, <1>5, <1>6, <1>7, <1>8, <1>9, <1>10, <1>11, CodesAre
           DEF Diagnostics!Next, Diagnostics!App, Diagnostics!Task

LEMMA JournalTold ==
  DiagnosticsInv => Diagnostics!TypeOK /\ Diagnostics!JournalIsTrue /\ Diagnostics!NoConflict
<1> SUFFICES ASSUME DiagnosticsInv
             PROVE  Diagnostics!TypeOK /\ Diagnostics!JournalIsTrue /\ Diagnostics!NoConflict
  OBVIOUS
<1>t. diag \in Journals /\ history \in Seq(EventCodes) /\ RingIsTail(diag, history) /\ Capacity \in Nat \ {0}
  BY CapacityIs DEF DiagnosticsInv, DiagnosticsTypes
<1>1. Diagnostics!TypeOK
  <2>1. /\ app \in AppStates /\ delivery \in Deliveries /\ Len(inbox.kept) <= Keep
    BY DEF DiagnosticsInv, DiagnosticsTypes
  <2>2. /\ diag.last \in Diagnostics!Errors \cup {Diagnostics!None} /\ diag.head \in 0 .. Capacity - 1
        /\ diag.count \in 0 .. Capacity
    BY <1>t, CodesAre DEF Journals
  <2>3. /\ app.state \in {"idle", "turn", "noted", "error"} /\ app.turns \in 0 .. MaxReported
        /\ delivery.attempts \in 0 .. Tries /\ delivery.at \in {"look", "post"}
    BY <2>1 DEF AppStates, Deliveries
  <2> QED BY <2>1, <2>2, <2>3 DEF Diagnostics!TypeOK
<1>2. Diagnostics!NoConflict
  BY DEF DiagnosticsInv, ReportsNumbered, Diagnostics!NoConflict
<1>3. Diagnostics!Snapshot = SubSeq(history, Len(history) - diag.count + 1, Len(history))
  <2> DEFINE told == SubSeq(history, Len(history) - diag.count + 1, Len(history))
  <2>1. diag.count \in Nat /\ diag.count <= Len(history) /\ Len(history) \in Nat /\ diag.head \in 0 .. Capacity - 1
    BY <1>t DEF Journals, RingIsTail
  <2>2. told = [i \in 1 .. diag.count |-> history[Len(history) - diag.count + i]]
    BY <1>t, <2>1
  <2>3. ASSUME NEW i \in 1 .. diag.count
        PROVE  diag.slots[(diag.head + i - 1) % Capacity] = history[Len(history) - diag.count + i]
    <3>1. diag.head + i - 1 = diag.head + (i - 1)
      BY <2>1
    <3>2. diag.slots[Place(diag.head, i - 1)] = history[Len(history) - diag.count + i]
      BY <1>t DEF RingIsTail
    <3> QED BY <3>1, <3>2 DEF Place
  <2> QED BY <2>2, <2>3 DEF Diagnostics!Snapshot
<1>4. app.state = "error" =>
        \E i \in DOMAIN history :
          history[i] = diag.last /\ \A j \in i + 1 .. Len(history) : history[j] # Diagnostics!Started
  BY CodesAre DEF DiagnosticsInv, ErrorOfRecording, SinceStart
<1> QED BY <1>1, <1>2, <1>3, <1>4 DEF Diagnostics!JournalIsTrue

-----------------------------------------------------------------------------
(* The services that have proofs of their own, as they are named here: the *)
(* same formulas, once by the names of the model and once by those of the  *)
(* module that proves them.                                                *)
OtaProofs == INSTANCE OtaUpdate_proofs WITH
  MaxFaults <- OtaFaults, nvs <- otaNvs, ram <- otaRam, offered <- otaOffer
CueProofs == INSTANCE RecorderCues_proofs WITH MaxFaults <- CueFaults, offered <- cueOffer
SettingsProofs == INSTANCE RecorderSettings_proofs WITH MaxFaults <- SettingsFaults, nvs <- cfgNvs

LEMMA OtaIsProved ==
  /\ Ota!ReleasesAssumption /\ Ota!FaultsAssumption
       => OtaProofs!ReleasesAssumption /\ OtaProofs!FaultsAssumption
  /\ Ota!Init => OtaProofs!Init
  /\ Ota!Next => OtaProofs!Next
<1>1. Ota!Next => OtaProofs!Next
  BY DEF Ota!Next, OtaProofs!Next, Ota!Publish, OtaProofs!Publish, Ota!PowerLoss, OtaProofs!PowerLoss,
         Ota!Boot, OtaProofs!Boot, Ota!Started, OtaProofs!Started, Ota!Choice, OtaProofs!Choice,
         Ota!Aborted, OtaProofs!Aborted, Ota!BootSlot, OtaProofs!BootSlot, Ota!Torn, OtaProofs!Torn,
         Ota!Other, OtaProofs!Other, Ota!ColdRam, OtaProofs!ColdRam, Ota!NoRelease, OtaProofs!NoRelease,
         Ota!ConfirmBoot, OtaProofs!ConfirmBoot, Ota!ReadFails, OtaProofs!ReadFails, Ota!RamStep,
         OtaProofs!RamStep, Ota!Pending, OtaProofs!Pending, Ota!Tick, OtaProofs!Tick, Ota!LoopOnce,
         OtaProofs!LoopOnce, Ota!SelfTestPasses, OtaProofs!SelfTestPasses, Ota!Current,
         OtaProofs!Current, Ota!SelfTestTimesOut, OtaProofs!SelfTestTimesOut, Ota!NothingAttempted,
         OtaProofs!NothingAttempted, Ota!Reject, OtaProofs!Reject, Ota!ClearAttempted,
         OtaProofs!ClearAttempted, Ota!OthersClaim, OtaProofs!OthersClaim, Ota!Confirmed,
         OtaProofs!Confirmed, Ota!OthersRelease, OtaProofs!OthersRelease, Ota!OtaTask,
         OtaProofs!OtaTask, Ota!FetchManifest, OtaProofs!FetchManifest, Ota!Reply, OtaProofs!Reply,
         Ota!Decoded, OtaProofs!Decoded, Ota!DropOffer, OtaProofs!DropOffer, Ota!Goes, OtaProofs!Goes,
         Ota!Claim, OtaProofs!Claim, Ota!Ignored, OtaProofs!Ignored, Ota!OpenFails, OtaProofs!OpenFails,
         Ota!Defers, OtaProofs!Defers, Ota!InstallFails, OtaProofs!InstallFails, Ota!MarkFails,
         OtaProofs!MarkFails, Ota!SetBoot, OtaProofs!SetBoot, Ota!Install, OtaProofs!Install, Ota!Begin,
         OtaProofs!Begin, Ota!WriteEnds, OtaProofs!WriteEnds, Ota!SwitchBoot, OtaProofs!SwitchBoot,
         Ota!MarkAttempted, OtaProofs!MarkAttempted
<1>2. Ota!Init => OtaProofs!Init
  BY DEF Ota!Init, OtaProofs!Init, Ota!Slots, OtaProofs!Slots, Ota!Base, OtaProofs!Base, Ota!Torn,
         OtaProofs!Torn, Ota!ColdRam, OtaProofs!ColdRam, Ota!NoRelease, OtaProofs!NoRelease
<1> QED BY <1>1, <1>2 DEF Ota!ReleasesAssumption, OtaProofs!ReleasesAssumption, Ota!FaultsAssumption,
         OtaProofs!FaultsAssumption

LEMMA CuesAreProved ==
  /\ Cues!CuesAssumption => CueProofs!CuesAssumption
  /\ Cues!Init => CueProofs!Init
  /\ Cues!Next => CueProofs!Next
<1>3. /\ Cues!Publish => CueProofs!Publish
      /\ Cues!PowerLoss => CueProofs!PowerLoss
  BY DEF Cues!Publish, CueProofs!Publish, Cues!Gens, CueProofs!Gens, Cues!PowerLoss,
         CueProofs!PowerLoss, Cues!Preload, CueProofs!Preload, Cues!None, CueProofs!None, Cues!Whole,
         CueProofs!Whole, Cues!File, CueProofs!File, Cues!Cues, CueProofs!Cues, Cues!Recorded,
         CueProofs!Recorded, Cues!Single, CueProofs!Single, Cues!GenFiles, CueProofs!GenFiles,
         Cues!Files, CueProofs!Files, Cues!Sets, CueProofs!Sets, Cues!AtRest, CueProofs!AtRest,
         Cues!Silent, CueProofs!Silent
<1>4. /\ Cues!ClaimVoice => CueProofs!ClaimVoice
      /\ Cues!CueStarts => CueProofs!CueStarts
      /\ Cues!CueEnds => CueProofs!CueEnds
      /\ Cues!ReturnVoice => CueProofs!ReturnVoice
      /\ Cues!Updates => CueProofs!Updates
  BY DEF Cues!ClaimVoice, CueProofs!ClaimVoice, Cues!Main, CueProofs!Main, Cues!CueStarts,
         CueProofs!CueStarts, Cues!Cues, CueProofs!Cues, Cues!Leased, CueProofs!Leased, Cues!None,
         CueProofs!None, Cues!CueEnds, CueProofs!CueEnds, Cues!Released, CueProofs!Released,
         Cues!Silent, CueProofs!Silent, Cues!ReturnVoice, CueProofs!ReturnVoice, Cues!Updates,
         CueProofs!Updates
<1>5. /\ Cues!FetchFails => CueProofs!FetchFails
      /\ Cues!FetchManifest => CueProofs!FetchManifest
      /\ Cues!CleanFile => CueProofs!CleanFile
      /\ Cues!Begin => CueProofs!Begin
      /\ Cues!NoSpace => CueProofs!NoSpace
  BY DEF Cues!FetchFails, CueProofs!FetchFails, Cues!Abandon, CueProofs!Abandon, Cues!AtRest,
         CueProofs!AtRest, Cues!None, CueProofs!None, Cues!At, CueProofs!At, Cues!File, CueProofs!File,
         Cues!Task, CueProofs!Task, Cues!FetchManifest, CueProofs!FetchManifest, Cues!TakesStorage,
         CueProofs!TakesStorage, Cues!Allowed, CueProofs!Allowed, Cues!Newer, CueProofs!Newer,
         Cues!CleanFile, CueProofs!CleanFile, Cues!GenFiles, CueProofs!GenFiles, Cues!Files,
         CueProofs!Files, Cues!Sets, CueProofs!Sets, Cues!Gens, CueProofs!Gens, Cues!Single,
         CueProofs!Single, Cues!Cues, CueProofs!Cues, Cues!Garbage, CueProofs!Garbage, Cues!Begin,
         CueProofs!Begin, Cues!Clean, CueProofs!Clean, Cues!HasSpace, CueProofs!HasSpace, Cues!NoSpace,
         CueProofs!NoSpace, Cues!MapThenSumSet, CueProofs!MapThenSumSet, Cues!MapThenFoldSet,
         CueProofs!MapThenFoldSet
<1>6. /\ Cues!StageCue => CueProofs!StageCue
      /\ Cues!RenameCue => CueProofs!RenameCue
  BY DEF Cues!StageCue, CueProofs!StageCue, Cues!At, CueProofs!At, Cues!TakesStorage,
         CueProofs!TakesStorage, Cues!Allowed, CueProofs!Allowed, Cues!File, CueProofs!File, Cues!Goes,
         CueProofs!Goes, Cues!Task, CueProofs!Task, Cues!RenameCue, CueProofs!RenameCue, Cues!Renamed,
         CueProofs!Renamed
<1>7. /\ Cues!CommitGeneration => CueProofs!CommitGeneration
      /\ Cues!CommitFails => CueProofs!CommitFails
      /\ Cues!SweepEnds => CueProofs!SweepEnds
  BY DEF Cues!CommitGeneration, CueProofs!CommitGeneration, Cues!At, CueProofs!At, Cues!TakesStorage,
         CueProofs!TakesStorage, Cues!Allowed, CueProofs!Allowed, Cues!Cues, CueProofs!Cues,
         Cues!Unread, CueProofs!Unread, Cues!Whole, CueProofs!Whole, Cues!File, CueProofs!File,
         Cues!Goes, CueProofs!Goes, Cues!Task, CueProofs!Task, Cues!CommitFails, CueProofs!CommitFails,
         Cues!AtRest, CueProofs!AtRest, Cues!None, CueProofs!None, Cues!SweepEnds, CueProofs!SweepEnds,
         Cues!Clean, CueProofs!Clean, Cues!GenFiles, CueProofs!GenFiles, Cues!Files, CueProofs!Files,
         Cues!Sets, CueProofs!Sets, Cues!Gens, CueProofs!Gens, Cues!Single, CueProofs!Single,
         Cues!Garbage, CueProofs!Garbage
<1>8. /\ Cues!RefreshCue => CueProofs!RefreshCue
      /\ Cues!PersistCue => CueProofs!PersistCue
      /\ Cues!RenameRecord => CueProofs!RenameRecord
  BY DEF Cues!RefreshCue, CueProofs!RefreshCue, Cues!AtRest, CueProofs!AtRest, Cues!None,
         CueProofs!None, Cues!Allowed, CueProofs!Allowed, Cues!Cues, CueProofs!Cues, Cues!Unread,
         CueProofs!Unread, Cues!Single, CueProofs!Single, Cues!Task, CueProofs!Task, Cues!PersistCue,
         CueProofs!PersistCue, Cues!TakesStorage, CueProofs!TakesStorage, Cues!RecordsFit,
         CueProofs!RecordsFit, Cues!Recorded, CueProofs!Recorded, Cues!File, CueProofs!File,
         Cues!RenameRecord, CueProofs!RenameRecord, Cues!At, CueProofs!At, Cues!Renamed,
         CueProofs!Renamed, Cues!Cardinality, CueProofs!Cardinality
<1>1. Cues!Next => CueProofs!Next
  BY <1>3, <1>4, <1>5, <1>6, <1>7, <1>8
     DEF Cues!Next, CueProofs!Next, Cues!Advance, CueProofs!Advance
<1>2. Cues!Init => CueProofs!Init
  BY DEF Cues!Init, CueProofs!Init, Cues!None, CueProofs!None, Cues!Cues, CueProofs!Cues, Cues!AtRest,
         CueProofs!AtRest, Cues!Silent, CueProofs!Silent
<1> QED BY <1>1, <1>2 DEF Cues!CuesAssumption, CueProofs!CuesAssumption

LEMMA SettingsAreProved ==
  /\ Settings!BoundsAssumption => SettingsProofs!BoundsAssumption
  /\ Settings!Init => SettingsProofs!Init
  /\ Settings!Next => SettingsProofs!Next
<1>1. Settings!Next => SettingsProofs!Next
  BY DEF Settings!Next, SettingsProofs!Next, Settings!BeginTurn, SettingsProofs!BeginTurn,
         Settings!Saves, SettingsProofs!Saves, Settings!Clean, SettingsProofs!Clean, Settings!Fields,
         SettingsProofs!Fields, Settings!SaveId, SettingsProofs!SaveId, Settings!ClearIds,
         SettingsProofs!ClearIds, Settings!Brightness, SettingsProofs!Brightness, Settings!Post,
         SettingsProofs!Post, Settings!Changed, SettingsProofs!Changed, Settings!FormAccepted,
         SettingsProofs!FormAccepted, Settings!Credentials, SettingsProofs!Credentials, Settings!Reset,
         SettingsProofs!Reset, Settings!Copy, SettingsProofs!Copy, Settings!Answer,
         SettingsProofs!Answer, Settings!Restart, SettingsProofs!Restart, Settings!Boot,
         SettingsProofs!Boot, Settings!Load, SettingsProofs!Load, Settings!Absent,
         SettingsProofs!Absent, Settings!Defaults, SettingsProofs!Defaults, Settings!Compiled,
         SettingsProofs!Compiled, Settings!Tasks, SettingsProofs!Tasks, Settings!Free,
         SettingsProofs!Free, Settings!PowerLoss, SettingsProofs!PowerLoss, Settings!Lock,
         SettingsProofs!Lock, Settings!Refuses, SettingsProofs!Refuses, Settings!After,
         SettingsProofs!After, Settings!Write, SettingsProofs!Write, Settings!Keys, SettingsProofs!Keys,
         Settings!Saving, SettingsProofs!Saving, Settings!WriteFails, SettingsProofs!WriteFails,
         Settings!Written, SettingsProofs!Written
<1>2. Settings!Init => SettingsProofs!Init
  BY DEF Settings!Init, SettingsProofs!Init, Settings!Fields, SettingsProofs!Fields, Settings!Absent,
         SettingsProofs!Absent, Settings!Defaults, SettingsProofs!Defaults, Settings!Compiled,
         SettingsProofs!Compiled, Settings!Tasks, SettingsProofs!Tasks, Settings!Free,
         SettingsProofs!Free, Settings!Clean, SettingsProofs!Clean
<1> QED BY <1>1, <1>2 DEF Settings!BoundsAssumption, SettingsProofs!BoundsAssumption

-----------------------------------------------------------------------------
(* A service keeps its invariant in the composition: its own steps are the *)
(* only ones of a behaviour that is its own.                               *)
OtaInv == component = "ota" => OtaProofs!IInv
CuesInv == component = "cues" => CueProofs!IInv
SettingsInv == component = "settings" => SettingsProofs!IInv
BoardInv == component = "codec" => CodecInv
SleepInv == component = "power" => PowerInv
JournalInv == component = "diagnostics" => DiagnosticsInv

LEMMA OtaKeeps ==
  /\ ServicesInit => OtaInv
  /\ OtaInv /\ [ServicesNext]_serviceVars => OtaInv'
<1>a. OtaProofs!ReleasesAssumption /\ OtaProofs!FaultsAssumption
  BY ServicesAssumption, OtaIsProved
<1>1. ServicesInit => OtaInv
  BY <1>a, OtaIsProved, OtaProofs!InitInv DEF ServicesInit, OtaInv
<1>2. ASSUME OtaInv, [ServicesNext]_serviceVars, component' = "ota"
      PROVE  OtaProofs!IInv'
  <2>1. component = "ota"
    BY <1>2 DEF ServicesNext, serviceVars
  <2>2. [OtaProofs!Next]_(OtaProofs!otaVars)
    BY <1>2, <2>1, OtaIsProved DEF ServicesNext, serviceVars, otaVars, OtaProofs!otaVars
  <2> QED BY <1>a, <1>2, <2>1, <2>2, OtaProofs!NextKeeps DEF OtaInv
<1> QED BY <1>1, <1>2 DEF OtaInv

LEMMA CuesKeep ==
  /\ ServicesInit => CuesInv
  /\ CuesInv /\ [ServicesNext]_serviceVars => CuesInv'
<1>a. CueProofs!CuesAssumption
  BY ServicesAssumption, CuesAreProved
<1>1. ServicesInit => CuesInv
  BY <1>a, CuesAreProved, CueProofs!InitInv DEF ServicesInit, CuesInv
<1>2. ASSUME CuesInv, [ServicesNext]_serviceVars, component' = "cues"
      PROVE  CueProofs!IInv'
  <2>1. component = "cues"
    BY <1>2 DEF ServicesNext, serviceVars
  <2>2. [CueProofs!Next]_(CueProofs!cueVars)
    BY <1>2, <2>1, CuesAreProved DEF ServicesNext, serviceVars, cueVars, CueProofs!cueVars
  <2> QED BY <1>a, <1>2, <2>1, <2>2, CueProofs!NextKeeps DEF CuesInv
<1> QED BY <1>1, <1>2 DEF CuesInv

LEMMA SettingsKeep ==
  /\ ServicesInit => SettingsInv
  /\ SettingsInv /\ [ServicesNext]_serviceVars => SettingsInv'
<1>a. SettingsProofs!BoundsAssumption
  BY ServicesAssumption, SettingsAreProved
<1>1. ServicesInit => SettingsInv
  BY <1>a, SettingsAreProved, SettingsProofs!InitInv DEF ServicesInit, SettingsInv
<1>2. ASSUME SettingsInv, [ServicesNext]_serviceVars, component' = "settings"
      PROVE  SettingsProofs!IInv'
  <2>1. component = "settings"
    BY <1>2 DEF ServicesNext, serviceVars
  <2>2. [SettingsProofs!Next]_(SettingsProofs!settingsVars)
    BY <1>2, <2>1, SettingsAreProved DEF ServicesNext, serviceVars, settingsVars, SettingsProofs!settingsVars
  <2> QED BY <1>a, <1>2, <2>1, <2>2, SettingsProofs!NextKeeps DEF SettingsInv
<1> QED BY <1>1, <1>2 DEF SettingsInv

LEMMA BoardKeeps ==
  /\ ServicesInit => BoardInv
  /\ BoardInv /\ [ServicesNext]_serviceVars => BoardInv'
<1>1. ServicesInit => BoardInv
  BY CodecInit DEF ServicesInit, BoardInv
<1>2. ASSUME BoardInv, [ServicesNext]_serviceVars, component' = "codec"
      PROVE  CodecInv'
  <2>1. component = "codec"
    BY <1>2 DEF ServicesNext, serviceVars
  <2>2. [Codec!Next]_(Codec!codecVars)
    BY <1>2, <2>1 DEF ServicesNext, serviceVars, codecVars, Codec!codecVars
  <2> QED BY <1>2, <2>1, <2>2, CodecKeeps DEF BoardInv
<1> QED BY <1>1, <1>2 DEF BoardInv

LEMMA SleepKeeps ==
  /\ ServicesInit => SleepInv
  /\ SleepInv /\ [ServicesNext]_serviceVars => SleepInv'
<1>1. ServicesInit => SleepInv
  BY PowerInit DEF ServicesInit, SleepInv
<1>2. ASSUME SleepInv, [ServicesNext]_serviceVars, component' = "power"
      PROVE  PowerInv'
  <2>1. component = "power"
    BY <1>2 DEF ServicesNext, serviceVars
  <2>2. [Power!Next]_(Power!powerVars)
    BY <1>2, <2>1 DEF ServicesNext, serviceVars, powerVars, Power!powerVars
  <2> QED BY <1>2, <2>1, <2>2, PowerKeeps DEF SleepInv
<1> QED BY <1>1, <1>2 DEF SleepInv

LEMMA JournalKeeps ==
  /\ ServicesInit => JournalInv
  /\ JournalInv /\ [ServicesNext]_serviceVars => JournalInv'
<1>1. ServicesInit => JournalInv
  BY DiagnosticsInit DEF ServicesInit, JournalInv
<1>2. ASSUME JournalInv, [ServicesNext]_serviceVars, component' = "diagnostics"
      PROVE  DiagnosticsInv'
  <2>1. component = "diagnostics"
    BY <1>2 DEF ServicesNext, serviceVars
  <2>2. [Diagnostics!Next]_(Diagnostics!diagVars)
    BY <1>2, <2>1 DEF ServicesNext, serviceVars, diagVars, Diagnostics!diagVars
  <2> QED BY <1>2, <2>1, <2>2, DiagnosticsKeep DEF JournalInv
<1> QED BY <1>1, <1>2 DEF JournalInv

LEMMA ClientKeepsAll ==
  /\ ServicesInit => IInv
  /\ IInv /\ [ServicesNext]_serviceVars => IInv'
<1>1. [ServicesNext]_serviceVars => [Next]_vars
  BY DEF ServicesNext, serviceVars
<1> QED BY <1>1, InitInv, StepInv DEF ServicesInit

(* All of it is one invariant of the recorder.                             *)
ServicesInv == IInv /\ OtaInv /\ CuesInv /\ SettingsInv /\ BoardInv /\ SleepInv /\ JournalInv

THEOREM ServicesInvariance == ServicesSpec => []ServicesInv
<1>1. ServicesInit => ServicesInv
  BY ClientKeepsAll, OtaKeeps, CuesKeep, SettingsKeep, BoardKeeps, SleepKeeps, JournalKeeps DEF ServicesInv
<1>2. ServicesInv /\ [ServicesNext]_serviceVars => ServicesInv'
  BY ClientKeepsAll, OtaKeeps, CuesKeep, SettingsKeep, BoardKeeps, SleepKeeps, JournalKeeps DEF ServicesInv
<1> QED BY <1>1, <1>2, PTL DEF ServicesSpec

-----------------------------------------------------------------------------
(* What those invariants say, by the names of the models.                  *)
LEMMA OtaSays ==
  OtaInv => (component = "ota" => Ota!TypeOK /\ Ota!ProvenReleaseKept)
<1> SUFFICES ASSUME OtaInv, component = "ota" PROVE Ota!TypeOK /\ Ota!ProvenReleaseKept
  OBVIOUS
<1>a. OtaProofs!ReleasesAssumption /\ OtaProofs!FaultsAssumption
  BY ServicesAssumption, OtaIsProved
<1>i. OtaProofs!IInv
  BY DEF OtaInv
<1>1. OtaProofs!TypeOK
  BY <1>i DEF OtaProofs!IInv
<1>2. OtaProofs!ProvenReleaseKept
  BY <1>a, <1>i, OtaProofs!Keeps
<1>3. Ota!TypeOK
  BY <1>1 DEF Ota!TypeOK, OtaProofs!TypeOK, Ota!Slots, OtaProofs!Slots, Ota!Torn, OtaProofs!Torn,
         Ota!NoRelease, OtaProofs!NoRelease
<1>4. Ota!ProvenReleaseKept
  BY <1>2 DEF Ota!ProvenReleaseKept, OtaProofs!ProvenReleaseKept, Ota!HasConfirmed, OtaProofs!HasConfirmed,
         Ota!Slots, OtaProofs!Slots, Ota!Current, OtaProofs!Current, Ota!Torn, OtaProofs!Torn,
         Ota!BootSlot, OtaProofs!BootSlot, Ota!Choice, OtaProofs!Choice, Ota!Other, OtaProofs!Other,
         Ota!Aborted, OtaProofs!Aborted, Ota!Confirmed, OtaProofs!Confirmed
<1> QED BY <1>3, <1>4

LEMMA CuesSay ==
  CuesInv => (component = "cues" => Cues!TypeOK /\ Cues!ActiveSetIsPlayed)
<1> SUFFICES ASSUME CuesInv, component = "cues" PROVE Cues!TypeOK /\ Cues!ActiveSetIsPlayed
  OBVIOUS
<1>i. CueProofs!IInv
  BY DEF CuesInv
<1>1. CueProofs!TypeOK
  BY <1>i DEF CueProofs!IInv
<1>2. CueProofs!ActiveSetIsPlayed
  BY <1>i DEF CueProofs!IInv, CueProofs!WholeInv, CueProofs!CountInv, CueProofs!ActiveSetIsPlayed
<1>3. Cues!TypeOK
  BY <1>1 DEF Cues!TypeOK, CueProofs!TypeOK, Cues!Files, CueProofs!Files, Cues!File, CueProofs!File,
         Cues!Sets, CueProofs!Sets, Cues!Gens, CueProofs!Gens, Cues!Single, CueProofs!Single, Cues!Cues,
         CueProofs!Cues, Cues!None, CueProofs!None
<1>4. Cues!ActiveSetIsPlayed
  BY <1>2 DEF Cues!ActiveSetIsPlayed, CueProofs!ActiveSetIsPlayed, Cues!None, CueProofs!None, Cues!Whole,
         CueProofs!Whole, Cues!File, CueProofs!File, Cues!Cues, CueProofs!Cues
<1> QED BY <1>3, <1>4

LEMMA SettingsSay ==
  SettingsInv => (component = "settings" => Settings!TypeOK /\ Settings!ResetIsFinal)
<1> SUFFICES ASSUME SettingsInv, component = "settings" PROVE Settings!TypeOK /\ Settings!ResetIsFinal
  OBVIOUS
<1>a. SettingsProofs!BoundsAssumption
  BY ServicesAssumption, SettingsAreProved
<1>i. SettingsProofs!IInv
  BY DEF SettingsInv
<1>1. SettingsProofs!TypeOK
  BY <1>a, <1>i, SettingsProofs!TypesAre
<1>2. SettingsProofs!ResetIsFinal
  BY <1>i DEF SettingsProofs!IInv, SettingsProofs!TypesInv, SettingsProofs!ResetInv, SettingsProofs!WipedInv,
     SettingsProofs!Emptied, SettingsProofs!ResetIsFinal
<1>3. Settings!TypeOK
  BY <1>1 DEF Settings!TypeOK, SettingsProofs!TypeOK, Settings!Credentials, SettingsProofs!Credentials,
         Settings!Values, SettingsProofs!Values, Settings!Tasks, SettingsProofs!Tasks, Settings!Keys,
         SettingsProofs!Keys
<1>4. Settings!ResetIsFinal
  BY <1>2 DEF Settings!ResetIsFinal, SettingsProofs!ResetIsFinal, Settings!Credentials,
         SettingsProofs!Credentials
<1> QED BY <1>3, <1>4

-----------------------------------------------------------------------------
(* Every variable of the client and of the services keeps its type, for    *)
(* any requests, releases, cues, forms, times, capacities and faults.      *)
THEOREM TypesHold == ServicesSpec => []TypesOK
<1>1. ServicesInv => TypesOK
  <2>1. IInv => TypeOK
    BY TypeIs
  <2> QED BY <2>1, OtaSays, CuesSay, SettingsSay, CodecServes, PowerServes, JournalTold
           DEF ServicesInv, BoardInv, SleepInv, JournalInv, TypesOK
<1> QED BY <1>1, ServicesInvariance, PTL

(* A release that passed its self-test stays whole in a slot, whichever    *)
(* step of an installation loses its power, and one that was rejected is   *)
(* not started again, as long as the rollback marker could be written.     *)
THEOREM FirmwareHolds == ServicesSpec => FirmwareKept
<1>1. ServicesInv => (component = "ota" => Ota!ProvenReleaseKept)
  BY OtaSays DEF ServicesInv
<1> DEFINE Starts == ~unmarked' /\ flash'[run'] # Ota!Current =>
                       flash'[run'] > otaNvs.rejected \/ flash'[run'] \in proven
<1>2. ServicesInv /\ [ServicesNext]_serviceVars => [Starts]_(Ota!otaVars)
  <2> SUFFICES ASSUME ServicesInv, [ServicesNext]_serviceVars PROVE Starts \/ UNCHANGED Ota!otaVars
    OBVIOUS
  <2>a. OtaProofs!ReleasesAssumption /\ OtaProofs!FaultsAssumption
    BY ServicesAssumption, OtaIsProved
  <2>1. CASE component = "ota" /\ Ota!Next
    <3>1. OtaProofs!IInv /\ OtaProofs!Next
      BY <2>1, OtaIsProved DEF ServicesInv, OtaInv
    <3>2. OtaProofs!StartsWell
      BY <2>a, <3>1, OtaProofs!NextKeeps
    <3> QED BY <3>2 DEF OtaProofs!StartsWell, OtaProofs!Current, Ota!Current
  <2>2. CASE UNCHANGED otaVars
    BY <2>2 DEF otaVars, Ota!Current
  <2> QED BY <2>1, <2>2 DEF ServicesNext, serviceVars
<1> HIDE DEF Starts
<1>3. ServicesSpec => [](component = "ota" => Ota!ProvenReleaseKept)
  BY <1>1, ServicesInvariance, PTL
<1>4. ServicesSpec => [][Starts]_(Ota!otaVars)
  BY <1>2, ServicesInvariance, PTL DEF ServicesSpec
<1> QED BY <1>3, <1>4 DEF FirmwareKept, Ota!RejectedIsFinal, Starts

(* The active set of cues is whole, alone in the banks and recorded in the *)
(* manifest, and every lease of a buffer ends once.                        *)
THEOREM ActiveSetHolds == ServicesSpec => []ActiveSetIsPlayed
<1>1. ServicesInv => ActiveSetIsPlayed
  BY CuesSay DEF ServicesInv, ActiveSetIsPlayed
<1> QED BY <1>1, ServicesInvariance, PTL

(* No credential comes back after a factory reset was answered, whoever    *)
(* held a copy of the settings when it came.                               *)
THEOREM ResetHolds == ServicesSpec => []ResetIsFinal
<1>1. ServicesInv => ResetIsFinal
  BY SettingsSay DEF ServicesInv, ResetIsFinal
<1> QED BY <1>1, ServicesInvariance, PTL

(* The microphone is quiet under a sound and open again after it, no cable *)
(* is missed on the way to sleep, and a press of KEY2 has one meaning.     *)
THEOREM BoardHolds == ServicesSpec => []BoardServes
<1>1. ServicesInv => BoardServes
  BY CodecServes, PowerServes DEF ServicesInv, BoardInv, SleepInv, BoardServes
<1> QED BY <1>1, ServicesInvariance, PTL

(* The journal is the end of what happened, an error is among it, and no   *)
(* two reports share a number, for a ring and a store of any size.         *)
THEOREM JournalHolds == ServicesSpec => []JournalKept
<1>1. ServicesInv => JournalKept
  BY JournalTold DEF ServicesInv, JournalInv, JournalKept
<1> QED BY <1>1, ServicesInvariance, PTL

=============================================================================
