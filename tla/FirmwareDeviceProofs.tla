------------------------ MODULE FirmwareDeviceProofs ------------------------
(***************************************************************************)
(* Proofs, for every choice of the constants, that the responder of        *)
(* FirmwareDevice keeps its types, its assertions and its contract with    *)
(* the application.                                                        *)
(*                                                                         *)
(* The handlers are functions from struct pldm_fd to struct pldm_fd, and   *)
(* pldm_fd_progress applies several of them in a row before the T1 check.  *)
(* The inductive invariant is therefore stated of any pair of a responder  *)
(* f and an application a, as Good(f, a): a lemma says of each function    *)
(* that it keeps a good pair good, and a lemma for each action composes    *)
(* them.                                                                   *)
(***************************************************************************)
EXTENDS FirmwareUpdate, TLAPS

\* IInv, of any responder and application.
Good(f, a) ==
    /\ f \in FdType /\ a \in AppType
    /\ a.ok
    /\ a.current_update => a.update_comp.id \in Supported
    /\ a.current_update <=>
         /\ f.state \in FDDriven
         /\ ~(f.state = "APPLY" /\ f.complete /\ f.result = "SUCCESS")
    /\ f.req = "SENT" => f.command \in Commands
    /\ f.state \in FDDriven =>
         /\ f.req # "UNUSED"
         /\ a.update_comp = f.update_comp
         /\ a.offset <= a.update_comp.size
    /\ f.state = "DOWNLOAD" =>
         /\ f.offset <= f.update_comp.size
         /\ f.req = "SENT" =>
              f.command = IF f.complete THEN "TRANSFER_COMPLETE"
                          ELSE "REQUEST_FIRMWARE_DATA"
         /\ ~a.verified /\ ~a.applied
         /\ ~f.complete =>
              /\ ~a.transferred /\ a.offset = f.offset
              /\ f.offset < f.update_comp.size \/ f.update_comp.size = 0
         /\ f.complete /\ f.result = "SUCCESS" => a.transferred
    /\ f.state = "VERIFY" =>
         /\ f.req = "SENT" => f.command = "VERIFY_COMPLETE" /\ f.complete
         /\ a.transferred /\ ~a.applied
         /\ a.verified <=> f.complete /\ f.result = "SUCCESS"
    /\ f.state = "APPLY" =>
         /\ f.req = "SENT" => f.command = "APPLY_COMPLETE" /\ f.complete
         /\ a.transferred /\ a.verified
         /\ a.applied <=> f.complete /\ f.result = "SUCCESS"
    /\ f.ua_address = NoUA <=> f.state = "IDLE"
    /\ f.state # "IDLE" => f.max_transfer >= PLDM_FWUP_BASELINE_TRANSFER_SIZE

\* Good is IInv: of the state of the system, in this step and in the next.
LEMMA GoodIsIInv == /\ IInv <=> Good(fd, app)
                    /\ IInv' <=> Good(fd', app')
<1>1. IInv <=> Good(fd, app)
  BY DEF Good, IInv, TypeOK, AppContract, NoOrphanedUpdate, AssertsHold,
         RequestFitsState, AppInStep, SessionIffUpdateMode, FDDriven
<1>2. IInv' <=> Good(fd', app')
  BY DEF Good, IInv, TypeOK, AppContract, NoOrphanedUpdate, AssertsHold,
         RequestFitsState, AppInStep, SessionIffUpdateMode, FDDriven
<1>3. QED
  BY <1>1, <1>2

-----------------------------------------------------------------------------
(* The functions the handlers are made of *)

\* Image sizes, also of the temporary component, are natural numbers.
LEMMA CompSize == ASSUME NEW c \in CompType PROVE c.size \in Nat
<1>1. c.size \in ImageSizes \cup {0}
  BY DEF CompType
<1>2. ImageSizes \subseteq Nat
  BY SizesAssumption DEF SizesAssumption
<1>3. \A n \in ImageSizes \cup {0} : n \in Nat
  <2>1. \A n \in ImageSizes : n \in Nat
    BY <1>2
  <2>2. 0 \in Nat
    OBVIOUS
  <2>3. QED
    BY <2>1, <2>2, Zenon
<1>4. QED
  BY <1>1, <1>3, Zenon

\* Adding to an age and saturating gives an age.
LEMMA SaturateType ==
    ASSUME NEW x \in 0 .. MaxAge, NEW d \in Nat
    PROVE  Saturate(x + d) \in 0 .. MaxAge
BY TimesAssumption DEF TimesAssumption, Saturate

\* The fields the invariant reads.
SameUpdate(f, g) ==
    /\ g.state = f.state /\ g.offset = f.offset
    /\ g.update_comp = f.update_comp
    /\ g.req = f.req /\ g.complete = f.complete /\ g.result = f.result
    /\ g.command = f.command
    /\ g.ua_address = f.ua_address /\ g.max_transfer = f.max_transfer

\* What differs only in ages, timeouts, instance ID, history or reason is as good.
LEMMA FrameGood ==
    ASSUME NEW f, NEW a, Good(f, a), NEW g \in FdType, SameUpdate(f, g)
    PROVE  Good(g, a)
BY DEF Good, SameUpdate

\* The passing of time, during a call or between calls.
LEMMA ElapseGood ==
    ASSUME NEW f, NEW a, Good(f, a), NEW d \in Nat
    PROVE  /\ Good(Elapse(f, d), a)
           /\ SameUpdate(f, Elapse(f, d))
<1>1. f \in FdType
  BY DEF Good
<1>2. f.t1_age \in 0 .. MaxAge /\ f.sent_age \in 0 .. MaxAge
  BY <1>1 DEF FdType
<1>3. /\ Saturate(f.t1_age + d) \in 0 .. MaxAge
      /\ Saturate(f.sent_age + d) \in 0 .. MaxAge
  BY <1>2, SaturateType
<1>4. Elapse(f, d) \in FdType
  BY <1>1, <1>3 DEF Elapse, FdType
<1>5. SameUpdate(f, Elapse(f, d))
  BY <1>1 DEF Elapse, SameUpdate, FdType
<1>6. QED
  BY <1>4, <1>5, FrameGood

\* Restarting T1.
LEMMA TouchT1Good ==
    ASSUME NEW f, NEW a, Good(f, a)
    PROVE  /\ Good(TouchT1(f), a)
           /\ SameUpdate(f, TouchT1(f))
<1>1. f \in FdType
  BY DEF Good
<1>2. TouchT1(f) \in FdType
  BY <1>1, TimesAssumption DEF TimesAssumption, TouchT1, FdType
<1>3. SameUpdate(f, TouchT1(f))
  BY <1>1 DEF TouchT1, SameUpdate, FdType
<1>4. QED
  BY <1>2, <1>3, FrameGood

\* Taking the next instance ID, also when no request follows.
LEMMA NextInstanceGood ==
    ASSUME NEW f, NEW a, Good(f, a)
    PROVE  /\ Good(NextInstance(f), a)
           /\ SameUpdate(f, NextInstance(f))
<1>1. f \in FdType
  BY DEF Good
<1>2. NextInstance(f) \in FdType
  BY <1>1, SizesAssumption DEF SizesAssumption, NextInstance, FdType
<1>3. SameUpdate(f, NextInstance(f))
  BY <1>1 DEF NextInstance, SameUpdate, FdType
<1>4. QED
  BY <1>2, <1>3, FrameGood

\* The command of the request each FD-driven state sends next.
FittingCommand(f) ==
    IF f.state = "VERIFY" THEN "VERIFY_COMPLETE"
    ELSE IF f.state = "APPLY" THEN "APPLY_COMPLETE"
    ELSE IF f.complete THEN "TRANSFER_COMPLETE" ELSE "REQUEST_FIRMWARE_DATA"

\* Sending a request of the right command, once verify or apply has finished.
LEMMA SendReqGood ==
    ASSUME NEW f, NEW a, Good(f, a), f.state \in FDDriven,
           f.state # "DOWNLOAD" => f.complete
    PROVE  Good(SendReq(f, FittingCommand(f)), a)
<1>1. f \in FdType /\ f.complete \in BOOLEAN
  BY DEF Good, FdType
<1>2. FittingCommand(f) \in Commands
  BY <1>1 DEF FittingCommand, FDDriven, Commands
<1> DEFINE g == SendReq(f, FittingCommand(f))
<1>3. 0 \in 0 .. MaxAge /\ "SENT" \in ReqStates
  BY TimesAssumption DEF TimesAssumption, ReqStates
<1>3a. g \in FdType
  BY <1>1, <1>2, <1>3 DEF SendReq, FdType
<1>4. /\ g.state = f.state /\ g.offset = f.offset
      /\ g.update_comp = f.update_comp
      /\ g.req = "SENT" /\ g.complete = f.complete /\ g.result = f.result
      /\ g.command = FittingCommand(f)
      /\ g.ua_address = f.ua_address /\ g.max_transfer = f.max_transfer
  BY <1>1 DEF SendReq, FdType
<1> HIDE DEF g
<1>5. Good(g, a)
  BY <1>1, <1>2, <1>3a, <1>4 DEF Good, FDDriven, FittingCommand
<1>6. QED
  BY <1>5 DEF g

\* pldm_fd_set_state changes the state and remembers the one before.
LEMMA SetStateFields ==
    ASSUME NEW f \in FdType, NEW s \in States
    PROVE  LET g == SetState(f, s)
           IN  /\ g \in FdType /\ g.state = s
               /\ g.offset = f.offset /\ g.update_comp = f.update_comp
               /\ g.req = f.req /\ g.complete = f.complete /\ g.result = f.result
               /\ g.command = f.command
               /\ g.ua_address = f.ua_address /\ g.max_transfer = f.max_transfer
BY DEF SetState, FdType

\* ops->cancel_update_component ends the application's update.
LEMMA CbCancelFields ==
    ASSUME NEW a \in AppType, NEW comp
    PROVE  LET b == CbCancelUpdateComponent(a, comp)
           IN  /\ b \in AppType /\ ~b.current_update
               /\ b.ok <=> /\ a.ok /\ a.current_update
                           /\ a.offset <= a.update_comp.size
                           /\ comp = a.update_comp
BY DEF CbCancelUpdateComponent, Check, AppType

\* pldm_fd_maybe_cancel_component leaves the application without an update, and
\* calls ops->cancel_update_component only when the application has one.
LEMMA MaybeCancelEnds ==
    ASSUME NEW f, NEW a, Good(f, a)
    PROVE  LET b == MaybeCancelComponent(f, a)
           IN  b \in AppType /\ b.ok /\ ~b.current_update
<1>1. f \in FdType /\ a \in AppType /\ a.ok
  BY DEF Good
<1>2. CASE \/ f.state \in {"DOWNLOAD", "VERIFY"}
           \/ f.state = "APPLY" /\ ~(f.complete /\ f.result = "SUCCESS")
  <2>1. /\ a.current_update /\ a.offset <= a.update_comp.size
        /\ f.update_comp = a.update_comp
    BY <1>2 DEF Good, FDDriven
  <2>2. MaybeCancelComponent(f, a) = CbCancelUpdateComponent(a, f.update_comp)
    BY <1>2 DEF MaybeCancelComponent
  <2>3. QED
    BY <1>1, <2>1, <2>2, CbCancelFields
<1>3. CASE ~ \/ f.state \in {"DOWNLOAD", "VERIFY"}
             \/ f.state = "APPLY" /\ ~(f.complete /\ f.result = "SUCCESS")
  <2>1. ~a.current_update
    BY <1>3 DEF Good, FDDriven
  <2>2. MaybeCancelComponent(f, a) = a
    BY <1>3 DEF MaybeCancelComponent
  <2>3. QED
    BY <1>1, <2>1, <2>2
<1>4. QED
  BY <1>2, <1>3

\* Leaving update mode, telling the application if it has an update running.
LEMMA SetIdleGood ==
    ASSUME NEW f, NEW a, Good(f, a), NEW g, Good(g, a), SameUpdate(f, g),
           NEW why \in Reasons
    PROVE  Good(SetIdle(g, why), MaybeCancelComponent(f, a))
<1> DEFINE h == SetIdle(g, why)
           b == MaybeCancelComponent(f, a)
<1>1. g \in FdType
  BY DEF Good
<1>2. /\ h \in FdType /\ h.state = "IDLE" /\ h.ua_address = NoUA
      /\ h.req = g.req /\ h.command = g.command
  BY <1>1 DEF SetIdle, FdType, States
<1>3. b \in AppType /\ b.ok /\ ~b.current_update
  BY MaybeCancelEnds
<1> HIDE DEF h, b
<1>4. Good(h, b)
  BY <1>2, <1>3 DEF Good, FDDriven
<1>5. QED
  BY <1>4 DEF h, b

\* Back to READY_XFER from an FD-driven state.
LEMMA CancelComponentGood ==
    ASSUME NEW f, NEW a, Good(f, a), f.state \in FDDriven
    PROVE  Good(SetState(f, "READY_XFER"), MaybeCancelComponent(f, a))
<1> DEFINE h == SetState(f, "READY_XFER")
           b == MaybeCancelComponent(f, a)
<1>1. f \in FdType /\ "READY_XFER" \in States
  BY DEF Good, States
<1>2. /\ h \in FdType /\ h.state = "READY_XFER"
      /\ h.req = f.req /\ h.command = f.command
      /\ h.ua_address = f.ua_address /\ h.max_transfer = f.max_transfer
  BY <1>1, SetStateFields
<1>3. b \in AppType /\ b.ok /\ ~b.current_update
  BY MaybeCancelEnds
<1> HIDE DEF h, b
<1>4. Good(h, b)
  BY <1>2, <1>3 DEF Good, FDDriven
<1>5. QED
  BY <1>4 DEF h, b

\* The reason recorded when T1 runs out is one of the protocol's.
LEMMA TimeoutReasonType ==
    ASSUME NEW s \in States PROVE TimeoutReason(s) \in Reasons
BY DEF TimeoutReason, Reasons, States

\* The T1 check that ends pldm_fd_progress.
LEMMA T1CheckGood ==
    ASSUME NEW f, NEW a, Good(f, a), T1Check(f, a)
    PROVE  Good(fd', app')
<1>1. CASE T1Expired(f) /\ fd' = IdleTimeout(f) /\ app' = MaybeCancelComponent(f, a)
  <2>1. f.state \in States /\ f.state # "IDLE"
    BY <1>1 DEF Good, FdType, T1Expired
  <2>2. fd' = SetIdle(f, TimeoutReason(f.state))
    BY <1>1, <2>1 DEF IdleTimeout
  <2>3. SameUpdate(f, f)
    BY DEF SameUpdate
  <2>4. QED
    BY <1>1, <2>1, <2>2, <2>3, TimeoutReasonType, SetIdleGood
<1>2. CASE fd' = f /\ app' = a
  BY <1>2
<1>3. QED
  BY <1>1, <1>2 DEF T1Check

-----------------------------------------------------------------------------
(* The request handlers *)

\* A request that does nothing but restart T1.
LEMMA OnlyTouchT1Step ==
    ASSUME Good(fd, app), OnlyTouchT1
    PROVE  Good(fd', app')
BY TouchT1Good DEF OnlyTouchT1

\* The transfer size agreed is a size of at least the baseline.
LEMMA ClampTransferBound ==
    ASSUME NEW m \in TransferSizes, NEW n \in TransferSizes
    PROVE  /\ ClampTransfer(m, n) \in Nat
           /\ ClampTransfer(m, n) >= PLDM_FWUP_BASELINE_TRANSFER_SIZE
<1>1. m \in Nat /\ n \in Nat /\ PLDM_FWUP_BASELINE_TRANSFER_SIZE \in Nat
  BY SizesAssumption DEF SizesAssumption
<1>2. QED
  BY <1>1 DEF ClampTransfer

\* RequestUpdate enters update mode with its sender as the UA.
LEMMA RequestUpdateStep ==
    ASSUME Good(fd, app),
           NEW tid \in TIDs, NEW m \in TransferSizes, NEW n \in TransferSizes,
           RequestUpdate(tid, m, n)
    PROVE  Good(fd', app')
<1>1. CASE OnlyTouchT1
  BY <1>1, OnlyTouchT1Step
<1>2. CASE /\ fd.state = "IDLE"
           /\ fd' = [SetState(TouchT1(fd), "LEARN_COMPONENTS") EXCEPT
                        !.ua_address = tid, !.max_transfer = ClampTransfer(m, n)]
           /\ UNCHANGED app
  <2> DEFINE f == TouchT1(fd)
             g == SetState(f, "LEARN_COMPONENTS")
  <2>1. Good(f, app) /\ SameUpdate(fd, f)
    BY TouchT1Good
  <2>2. f \in FdType /\ "LEARN_COMPONENTS" \in States
    BY <2>1 DEF Good, States
  <2>3. /\ g \in FdType /\ g.state = "LEARN_COMPONENTS"
        /\ g.req = f.req /\ g.command = f.command
    BY <2>2, SetStateFields
  <2>4. ~app.current_update
    BY <1>2 DEF Good, FDDriven
  <2>5. tid # NoUA
    BY ComponentsAssumption DEF ComponentsAssumption
  <2>6. fd' = [g EXCEPT !.ua_address = tid, !.max_transfer = ClampTransfer(m, n)]
    BY <1>2
  <2> HIDE DEF f, g
  <2>7. /\ fd' \in FdType /\ fd'.state = "LEARN_COMPONENTS"
        /\ fd'.req = f.req /\ fd'.command = f.command
        /\ fd'.ua_address = tid /\ fd'.max_transfer = ClampTransfer(m, n)
    BY <2>3, <2>6, ClampTransferBound DEF FdType
  <2>8. Good(fd', app)
    BY <2>1, <2>4, <2>5, <2>7, ClampTransferBound DEF Good, FDDriven
  <2>9. QED
    BY <1>2, <2>8
<1>3. QED
  BY <1>1, <1>2 DEF RequestUpdate

\* Overwriting the temporary component matters to no state that reads it.
LEMMA StoreComponentGood ==
    ASSUME NEW f, NEW a, Good(f, a), f.state \notin FDDriven, NEW comp \in CompType
    PROVE  Good([f EXCEPT !.update_comp = comp], a)
<1> DEFINE g == [f EXCEPT !.update_comp = comp]
<1>1. f \in FdType
  BY DEF Good
<1>2. /\ g \in FdType /\ g.state = f.state /\ g.req = f.req
      /\ g.command = f.command /\ g.ua_address = f.ua_address
      /\ g.max_transfer = f.max_transfer
  BY <1>1 DEF FdType
<1> HIDE DEF g
<1>3. Good(g, a)
  BY <1>2 DEF Good, FDDriven
<1>4. QED
  BY <1>3 DEF g

\* PassComponentTable, of which the last part moves on to READY_XFER.
LEMMA PassComponentTableStep ==
    ASSUME Good(fd, app), NEW tid \in TIDs, NEW id \in Components,
           NEW end \in BOOLEAN, PassComponentTable(tid, id, end)
    PROVE  Good(fd', app')
<1> DEFINE f == TouchT1(fd)
           stored == [f EXCEPT !.update_comp = [id |-> id, size |-> 0]]
<1>1. /\ Good(f, app) /\ SameUpdate(fd, f) /\ f \in FdType
      /\ UNCHANGED app
  BY TouchT1Good DEF PassComponentTable, Good
<1>2. CASE fd' = f
  BY <1>1, <1>2
<1>3. CASE fd.state = "LEARN_COMPONENTS" /\ fd' = [f EXCEPT !.update_comp.size = 0]
  <2> DEFINE cleared == [f.update_comp EXCEPT !.size = 0]
  <2>1. cleared \in CompType
    BY <1>1 DEF FdType, CompType
  <2>2. fd' = [f EXCEPT !.update_comp = cleared]
    BY <1>1, <1>3 DEF FdType
  <2>3. f.state \notin FDDriven
    BY <1>1, <1>3 DEF SameUpdate, FDDriven
  <2> HIDE DEF cleared, f
  <2>4. QED
    BY <1>1, <2>1, <2>2, <2>3, StoreComponentGood
<1>4. CASE /\ fd.state = "LEARN_COMPONENTS"
           /\ fd' = stored \/ fd' = SetState(stored, "READY_XFER")
  <2>1. [id |-> id, size |-> 0] \in CompType /\ "READY_XFER" \in States
    BY DEF CompType, States
  <2>2. f.state = "LEARN_COMPONENTS" /\ f.state \notin FDDriven
    BY <1>1, <1>4 DEF SameUpdate, FDDriven
  <2> HIDE DEF f
  <2>3. Good(stored, app) /\ stored.state = "LEARN_COMPONENTS"
    <3>1. Good(stored, app)
      BY <1>1, <2>1, <2>2, StoreComponentGood
    <3>2. QED
      BY <1>1, <3>1, <2>2 DEF FdType
  <2> HIDE DEF stored
  <2>4. stored \in FdType
    BY <2>3 DEF Good
  <2>5. CASE fd' = stored
    BY <1>1, <2>3, <2>5
  <2>6. CASE fd' = SetState(stored, "READY_XFER")
    <3>1. /\ fd' \in FdType /\ fd'.state = "READY_XFER"
          /\ fd'.req = stored.req /\ fd'.command = stored.command
          /\ fd'.ua_address = stored.ua_address
          /\ fd'.max_transfer = stored.max_transfer
      BY <2>1, <2>4, <2>6, SetStateFields
    <3>2. Good(fd', app)
      BY <2>3, <3>1 DEF Good, FDDriven
    <3>3. QED
      BY <1>1, <3>2
  <2>7. QED
    BY <1>4, <2>5, <2>6
<1>5. QED
  BY <1>2, <1>3, <1>4 DEF PassComponentTable

\* ops->update_component begins an update of the application.
LEMMA CbUpdateFields ==
    ASSUME NEW a \in AppType, NEW comp \in CompType
    PROVE  LET b == CbUpdateComponent(a, comp)
           IN  /\ b \in AppType /\ b.current_update
               /\ b.update_comp = comp /\ b.offset = 0
               /\ ~b.transferred /\ ~b.verified /\ ~b.applied
               /\ b.ok <=> a.ok /\ ~a.current_update
BY DEF CbUpdateComponent, Check, AppType

\* UpdateComponent: refused, begun and taken back, or begun.
LEMMA UpdateComponentStep ==
    ASSUME Good(fd, app), NEW tid \in TIDs,
           NEW comp \in [id : Components, size : ImageSizes],
           UpdateComponent(tid, comp)
    PROVE  Good(fd', app')
<1> DEFINE f == TouchT1(fd)
           stored == [f EXCEPT !.update_comp = comp]
           b == CbUpdateComponent(app, comp)
<1>1. Good(f, app) /\ SameUpdate(fd, f) /\ f \in FdType
  BY TouchT1Good DEF Good
<1>2. comp \in CompType /\ "DOWNLOAD" \in States
  BY DEF CompType, States
<1>3. CASE OnlyTouchT1
  BY <1>3, OnlyTouchT1Step
<1>4. CASE /\ fd.state = "READY_XFER"
           /\ \/ fd' = stored /\ UNCHANGED app
              \/ /\ comp.id \in Supported
                 /\ fd' = stored
                 /\ app' = CbCancelUpdateComponent(b, comp)
              \/ /\ comp.id \in Supported
                 /\ fd' = SetState([stored EXCEPT !.offset = 0, !.req = "READY",
                                                  !.complete = FALSE], "DOWNLOAD")
                 /\ app' = b
  <2>1. f.state = "READY_XFER" /\ f.state \notin FDDriven
    BY <1>1, <1>4 DEF SameUpdate, FDDriven
  <2>2. ~app.current_update /\ app.ok /\ app \in AppType
    BY <1>4 DEF Good, FDDriven
  <2>3. /\ b \in AppType /\ b.current_update /\ b.ok
        /\ b.update_comp = comp /\ b.offset = 0
        /\ ~b.transferred /\ ~b.verified /\ ~b.applied
    BY <1>2, <2>2, CbUpdateFields
  <2> HIDE DEF f
  <2>4. Good(stored, app)
    BY <1>1, <1>2, <2>1, StoreComponentGood
  <2>5. stored.state = "READY_XFER" /\ stored \in FdType /\ stored.update_comp = comp
    BY <1>1, <2>1, <2>4 DEF Good, FdType
  <2>6. comp.size \in Nat
    BY <1>2, CompSize
  <2> HIDE DEF stored, b
  <2>7. CASE fd' = stored /\ UNCHANGED app
    BY <2>4, <2>7
  <2>8. CASE fd' = stored /\ app' = CbCancelUpdateComponent(b, comp)
    <3>1. app' \in AppType /\ ~app'.current_update /\ app'.ok
      BY <2>3, <2>6, <2>8, CbCancelFields
    <3>2. Good(stored, app')
      BY <2>4, <2>5, <3>1 DEF Good, FDDriven
    <3>3. QED
      BY <2>8, <3>2
  <2>9. CASE /\ comp.id \in Supported
             /\ fd' = SetState([stored EXCEPT !.offset = 0, !.req = "READY",
                                              !.complete = FALSE], "DOWNLOAD")
             /\ app' = b
    <3> DEFINE g == [stored EXCEPT !.offset = 0, !.req = "READY", !.complete = FALSE]
    <3>1. /\ g \in FdType /\ g.offset = 0 /\ g.req = "READY" /\ g.complete = FALSE
          /\ g.update_comp = comp
          /\ g.ua_address = stored.ua_address /\ g.max_transfer = stored.max_transfer
      BY <2>5 DEF FdType, ReqStates
    <3>2. fd' = SetState(g, "DOWNLOAD")
      BY <2>9
    <3> HIDE DEF g
    <3>3. /\ fd' \in FdType /\ fd'.state = "DOWNLOAD" /\ fd'.update_comp = comp
          /\ fd'.offset = 0 /\ fd'.req = "READY" /\ fd'.complete = FALSE
          /\ fd'.ua_address = stored.ua_address
          /\ fd'.max_transfer = stored.max_transfer
      BY <1>2, <3>1, <3>2, SetStateFields
    <3>4. fd'.ua_address # NoUA /\ fd'.max_transfer >= PLDM_FWUP_BASELINE_TRANSFER_SIZE
      BY <2>4, <2>5, <3>3 DEF Good
    <3>5. Good(fd', b)
      BY <2>3, <2>6, <2>9, <3>3, <3>4 DEF Good, FDDriven
    <3>6. QED
      BY <2>9, <3>5
  <2>10. QED
    BY <1>4, <2>7, <2>8, <2>9
<1>5. QED
  BY <1>3, <1>4 DEF UpdateComponent

\* CancelUpdateComponent.
LEMMA CancelUpdateComponentStep ==
    ASSUME Good(fd, app), NEW tid \in TIDs, CancelUpdateComponent(tid)
    PROVE  Good(fd', app')
BY CancelComponentGood DEF CancelUpdateComponent

\* CancelUpdate.
LEMMA CancelUpdateStep ==
    ASSUME Good(fd, app), CancelUpdate
    PROVE  Good(fd', app')
<1>1. CASE OnlyTouchT1
  BY <1>1, OnlyTouchT1Step
<1>2. CASE /\ fd' = SetIdle(TouchT1(fd), "CANCEL_UPDATE")
           /\ app' = MaybeCancelComponent(fd, app)
  <2>1. "CANCEL_UPDATE" \in Reasons
    BY DEF Reasons
  <2>2. QED
    BY <1>2, <2>1, TouchT1Good, SetIdleGood
<1>3. QED
  BY <1>1, <1>2 DEF CancelUpdate

\* ActivateFirmware ends the session when the application activates.
LEMMA ActivateFirmwareStep ==
    ASSUME Good(fd, app), NEW tid \in TIDs, NEW activated \in BOOLEAN,
           ActivateFirmware(tid, activated)
    PROVE  Good(fd', app')
<1>1. fd \in FdType /\ fd.state = "READY_XFER" /\ app \in AppType
  BY DEF Good, ActivateFirmware
<1>2. ~app.current_update /\ app.ok
  BY <1>1 DEF Good, FDDriven
<1>3. app' = app
  BY <1>1, <1>2 DEF ActivateFirmware, CbActivate, Check, AppType
<1>4. CASE fd' = fd
  BY <1>3, <1>4
<1>5. CASE fd' = SetIdle(SetState(fd, "ACTIVATE"), "ACTIVATE_FW")
  <2> DEFINE g == SetState(fd, "ACTIVATE")
  <2>1. g \in FdType /\ g.req = fd.req /\ g.command = fd.command
    BY <1>1, SetStateFields DEF States
  <2> HIDE DEF g
  <2>2. fd' = SetIdle(g, "ACTIVATE_FW")
    BY <1>5 DEF g
  <2>3. /\ fd' \in FdType /\ fd'.state = "IDLE" /\ fd'.ua_address = NoUA
        /\ fd'.req = fd.req /\ fd'.command = fd.command
    BY <2>1, <2>2 DEF SetIdle, FdType, States, Reasons
  <2>4. Good(fd', app)
    BY <1>1, <1>2, <2>3 DEF Good, FDDriven
  <2>5. QED
    BY <1>3, <2>4
<1>6. QED
  BY <1>4, <1>5 DEF ActivateFirmware

-----------------------------------------------------------------------------
(* The response handlers *)

\* fwdata_size asks for no more than what is left, and for nothing only when
\* nothing is left.
LEMMA FwdataSizeBounds ==
    ASSUME NEW f, NEW a, Good(f, a), f.state = "DOWNLOAD"
    PROVE  /\ f.offset \in Nat /\ f.update_comp.size \in Nat
           /\ FwdataSize(f) \in Nat
           /\ f.offset + FwdataSize(f) <= f.update_comp.size
           /\ f.offset < f.update_comp.size => FwdataSize(f) > 0
<1>1. f.offset \in Nat /\ f.update_comp \in CompType /\ f.max_transfer \in Nat
  BY DEF Good, FdType
<1>2. f.update_comp.size \in Nat
  BY <1>1, CompSize
<1>3. f.offset <= f.update_comp.size /\ f.max_transfer >= PLDM_FWUP_BASELINE_TRANSFER_SIZE
  BY DEF Good
<1>4. PLDM_FWUP_BASELINE_TRANSFER_SIZE \in Nat \ {0}
  BY SizesAssumption DEF SizesAssumption
<1>5. QED
  BY <1>1, <1>2, <1>3, <1>4 DEF FwdataSize

\* ops->firmware_data takes the next piece of the image.
LEMMA CbFirmwareDataFields ==
    ASSUME NEW a \in AppType, NEW offset \in Nat, NEW len \in Nat, NEW comp
    PROVE  LET b == CbFirmwareData(a, offset, len, comp)
           IN  /\ b \in AppType /\ b.offset = a.offset + len
               /\ b.current_update = a.current_update
               /\ b.update_comp = a.update_comp
               /\ b.verified = a.verified /\ b.applied = a.applied
               /\ b.transferred <=>
                    a.transferred \/ a.offset + len = a.update_comp.size
               /\ b.ok <=> /\ a.ok /\ a.current_update
                           /\ ~a.transferred /\ ~a.verified /\ ~a.applied
                           /\ offset = a.offset
                           /\ a.offset + len <= a.update_comp.size
                           /\ comp = a.update_comp
<1>1. a.offset \in Nat /\ a.offset + len \in Nat
  BY DEF AppType
<1>2. QED
  BY <1>1 DEF CbFirmwareData, Check, AppType

\* RequestFirmwareData's response: ignored, an aborted transfer, or data.
LEMMA FwdataRespStep ==
    ASSUME Good(fd, app), NEW cc, NEW len, NEW res \in CallbackResults,
           FwdataResp(cc, len, res)
    PROVE  Good(fd', app')
<1> DEFINE f == TouchT1(fd)
           size == FwdataSize(fd)
           b == CbFirmwareData(app, fd.offset, size, fd.update_comp)
<1>1. Good(f, app) /\ SameUpdate(fd, f) /\ f \in FdType /\ app \in AppType
  BY TouchT1Good DEF Good
<1> HIDE DEF f
<1>2. CASE fd' = f /\ UNCHANGED app
  BY <1>1, <1>2
<1>3. CASE /\ fd.state = "DOWNLOAD" /\ ~fd.complete
           /\ fd' = [f EXCEPT !.req = "READY", !.complete = TRUE,
                              !.result = "FD_ABORTED_TRANSFER"]
           /\ UNCHANGED app
  <2>1. /\ fd' \in FdType /\ fd'.state = f.state /\ fd'.offset = f.offset
        /\ fd'.update_comp = f.update_comp /\ fd'.req = "READY"
        /\ fd'.complete = TRUE /\ fd'.result = "FD_ABORTED_TRANSFER"
        /\ fd'.ua_address = f.ua_address /\ fd'.max_transfer = f.max_transfer
    BY <1>1, <1>3 DEF FdType, ReqStates, Results
  <2>2. f.state = "DOWNLOAD"
    BY <1>1, <1>3 DEF SameUpdate
  <2>3. Good(fd', app)
    BY <1>1, <2>1, <2>2 DEF Good, FDDriven
  <2>4. QED
    BY <1>3, <2>3
<1>4. CASE /\ fd.state = "DOWNLOAD" /\ ~fd.complete
           /\ app' = b
           /\ IF res = "SUCCESS"
              THEN IF fd.offset + size = fd.update_comp.size
                   THEN fd' = [f EXCEPT !.req = "READY", !.complete = TRUE,
                                        !.result = res, !.offset = @ + size]
                   ELSE fd' = [f EXCEPT !.req = "READY", !.offset = @ + size]
              ELSE fd' = [f EXCEPT !.req = "READY", !.complete = TRUE,
                                   !.result = res]
  <2>1. /\ fd.offset \in Nat /\ fd.update_comp.size \in Nat /\ size \in Nat
        /\ fd.offset + size <= fd.update_comp.size
    BY <1>4, FwdataSizeBounds
  <2>2. /\ app.ok /\ app.current_update
        /\ ~app.transferred /\ ~app.verified /\ ~app.applied
        /\ app.offset = fd.offset /\ app.update_comp = fd.update_comp
    BY <1>4 DEF Good, FDDriven
  <2> HIDE DEF size
  <2>3. /\ b \in AppType /\ b.ok /\ b.current_update
        /\ b.offset = fd.offset + size /\ b.update_comp = fd.update_comp
        /\ ~b.verified /\ ~b.applied
        /\ b.transferred <=> fd.offset + size = fd.update_comp.size
    <3>1. app \in AppType
      BY DEF Good
    <3>2. /\ b \in AppType /\ b.offset = app.offset + size
          /\ b.current_update = app.current_update
          /\ b.update_comp = app.update_comp
          /\ b.verified = app.verified /\ b.applied = app.applied
          /\ b.transferred <=> app.transferred \/ app.offset + size = app.update_comp.size
          /\ b.ok <=> /\ app.ok /\ app.current_update
                      /\ ~app.transferred /\ ~app.verified /\ ~app.applied
                      /\ fd.offset = app.offset
                      /\ app.offset + size <= app.update_comp.size
                      /\ fd.update_comp = app.update_comp
      BY <2>1, <3>1, CbFirmwareDataFields DEF b
    <3> HIDE DEF b
    <3> QED
      BY <2>1, <2>2, <3>2
  <2> HIDE DEF b
  <2>4. /\ f.state = "DOWNLOAD" /\ f.complete = fd.complete /\ f.offset = fd.offset
        /\ f.update_comp = fd.update_comp
        /\ f.ua_address # NoUA /\ f.max_transfer >= PLDM_FWUP_BASELINE_TRANSFER_SIZE
    BY <1>1, <1>4 DEF SameUpdate, Good
  <2>5. b.update_comp.id \in Supported
    BY <2>2, <2>3 DEF Good
  <2>6. fd.offset + size \in Nat /\ "READY" \in ReqStates /\ res \in Results
    BY <2>1 DEF ReqStates, Results
  <2>7. /\ fd' \in FdType /\ fd'.state = "DOWNLOAD" /\ fd'.req = "READY"
        /\ fd'.update_comp = fd.update_comp
        /\ fd'.ua_address # NoUA
        /\ fd'.max_transfer >= PLDM_FWUP_BASELINE_TRANSFER_SIZE
        /\ \/ /\ fd'.offset = fd.offset + size /\ fd'.complete = TRUE
              /\ fd.offset + size = fd.update_comp.size
           \/ /\ fd'.offset = fd.offset + size /\ ~fd'.complete
              /\ fd.offset + size # fd.update_comp.size
           \/ /\ fd'.offset = fd.offset /\ fd'.complete = TRUE
              /\ fd'.result # "SUCCESS"
    <3>1. CASE res = "SUCCESS" /\ fd.offset + size = fd.update_comp.size
      <4>1. fd' = [f EXCEPT !.req = "READY", !.complete = TRUE,
                            !.result = res, !.offset = fd.offset + size]
        BY <1>1, <1>4, <2>4, <3>1 DEF FdType
      <4>2. QED
        BY <1>1, <2>4, <2>6, <3>1, <4>1 DEF FdType
    <3>2. CASE res = "SUCCESS" /\ fd.offset + size # fd.update_comp.size
      <4>1. fd' = [f EXCEPT !.req = "READY", !.offset = fd.offset + size]
        BY <1>1, <1>4, <2>4, <3>2 DEF FdType
      <4>2. fd'.complete = f.complete
        BY <1>1, <4>1 DEF FdType
      <4>3. QED
        BY <1>1, <1>4, <2>4, <2>6, <3>2, <4>1, <4>2 DEF FdType
    <3>3. CASE res # "SUCCESS"
      <4>1. fd' = [f EXCEPT !.req = "READY", !.complete = TRUE, !.result = res]
        BY <1>4, <3>3
      <4>2. fd' \in FdType
        BY <1>1, <2>6, <4>1 DEF FdType
      <4>3. QED
        BY <1>1, <2>4, <3>3, <4>1, <4>2 DEF FdType
    <3>4. QED
      BY <3>1, <3>2, <3>3
  <2>8. Good(fd', b)
    <3>1. CASE ~fd'.complete
      BY <2>1, <2>3, <2>5, <2>7, <3>1, SMTT(30) DEF Good, FDDriven
    <3>2. CASE fd'.complete /\ fd'.offset = fd.offset + size
               /\ fd.offset + size = fd.update_comp.size
      BY <2>1, <2>3, <2>5, <2>7, <3>2, SMTT(30) DEF Good, FDDriven
    <3>3. CASE fd'.complete /\ fd'.offset = fd.offset /\ fd'.result # "SUCCESS"
      BY <2>1, <2>3, <2>5, <2>7, <3>3, SMTT(30) DEF Good, FDDriven
    <3> QED
      BY <2>7, <3>1, <3>2, <3>3
  <2>9. QED
    BY <1>4, <2>8
<1>5. QED
  BY <1>2, <1>3, <1>4 DEF FwdataResp, f

\* A failed operation keeps its state and sends nothing more.
LEMMA FailedGood ==
    ASSUME NEW f, NEW a, Good(f, a)
    PROVE  Good([f EXCEPT !.req = "FAILED"], a)
<1> DEFINE g == [f EXCEPT !.req = "FAILED"]
<1>1. f \in FdType
  BY DEF Good
<1>2. /\ g \in FdType /\ g.state = f.state /\ g.offset = f.offset
      /\ g.update_comp = f.update_comp
      /\ g.req = "FAILED" /\ g.complete = f.complete /\ g.result = f.result
      /\ g.command = f.command
      /\ g.ua_address = f.ua_address /\ g.max_transfer = f.max_transfer
  BY <1>1 DEF FdType, ReqStates
<1> HIDE DEF g
<1>3. Good(g, a)
  BY <1>2 DEF Good
<1>4. QED
  BY <1>3 DEF g

\* The next operation starts from a fresh request slot.
LEMMA NextOperationFields ==
    ASSUME NEW f \in FdType, NEW s \in States
    PROVE  LET g == SetState([f EXCEPT !.offset = 0, !.req = "READY",
                                       !.complete = FALSE], s)
           IN  /\ g \in FdType /\ g.state = s /\ g.req = "READY"
               /\ g.complete = FALSE /\ g.update_comp = f.update_comp
               /\ g.ua_address = f.ua_address /\ g.max_transfer = f.max_transfer
<1> DEFINE h == [f EXCEPT !.offset = 0, !.req = "READY", !.complete = FALSE]
<1>1. /\ h \in FdType /\ h.req = "READY" /\ h.complete = FALSE
      /\ h.update_comp = f.update_comp
      /\ h.ua_address = f.ua_address /\ h.max_transfer = f.max_transfer
  BY DEF FdType, ReqStates
<1> HIDE DEF h
<1>2. LET g == SetState(h, s)
      IN  /\ g \in FdType /\ g.state = s /\ g.req = "READY"
          /\ g.complete = FALSE /\ g.update_comp = f.update_comp
          /\ g.ua_address = f.ua_address /\ g.max_transfer = f.max_transfer
  BY <1>1, SetStateFields
<1>3. QED
  BY <1>2 DEF h

\* TransferComplete's response: verify what was transferred, or stop.
LEMMA TransferCompleteRespStep ==
    ASSUME Good(fd, app), TransferCompleteResp
    PROVE  Good(fd', app')
<1> DEFINE f == TouchT1(fd)
<1>1. Good(f, app) /\ SameUpdate(fd, f) /\ f \in FdType /\ UNCHANGED app
  BY TouchT1Good DEF Good, TransferCompleteResp
<1> HIDE DEF f
<1>2. CASE fd' = f
  BY <1>1, <1>2
<1>3. CASE /\ fd.state = "DOWNLOAD" /\ fd.complete /\ fd.result = "SUCCESS"
           /\ fd' = SetState([f EXCEPT !.offset = 0, !.req = "READY",
                                       !.complete = FALSE], "VERIFY")
  <2>1. "VERIFY" \in States
    BY DEF States
  <2>2. /\ fd' \in FdType /\ fd'.state = "VERIFY" /\ fd'.req = "READY"
        /\ fd'.complete = FALSE /\ fd'.update_comp = f.update_comp
        /\ fd'.ua_address = f.ua_address /\ fd'.max_transfer = f.max_transfer
    <3> DEFINE g == SetState([f EXCEPT !.offset = 0, !.req = "READY",
                                       !.complete = FALSE], "VERIFY")
    <3>1. /\ g \in FdType /\ g.state = "VERIFY" /\ g.req = "READY"
          /\ g.complete = FALSE /\ g.update_comp = f.update_comp
          /\ g.ua_address = f.ua_address /\ g.max_transfer = f.max_transfer
      BY <1>1, <2>1, NextOperationFields
    <3>2. fd' = g
      BY <1>3
    <3> HIDE DEF g
    <3> QED
      BY <3>1, <3>2
  <2>3. f.state = "DOWNLOAD" /\ f.complete = fd.complete /\ f.result = "SUCCESS"
    BY <1>1, <1>3 DEF SameUpdate
  <2>4. Good(fd', app)
    BY <1>1, <1>3, <2>2, <2>3 DEF Good, FDDriven
  <2>5. QED
    BY <1>1, <2>4
<1>4. CASE fd' = [f EXCEPT !.req = "FAILED"]
  BY <1>1, <1>4, FailedGood
<1>5. QED
  BY <1>2, <1>3, <1>4 DEF TransferCompleteResp, f

\* VerifyComplete's response: apply what was verified, or stop.
LEMMA VerifyCompleteRespStep ==
    ASSUME Good(fd, app), fd.req = "SENT", VerifyCompleteResp
    PROVE  Good(fd', app')
<1> DEFINE f == TouchT1(fd)
<1>1. Good(f, app) /\ SameUpdate(fd, f) /\ f \in FdType /\ UNCHANGED app
  BY TouchT1Good DEF Good, VerifyCompleteResp
<1> HIDE DEF f
<1>2. CASE fd' = f
  BY <1>1, <1>2
<1>3. CASE /\ fd.state = "VERIFY" /\ fd.result = "SUCCESS"
           /\ fd' = SetState([f EXCEPT !.offset = 0, !.req = "READY",
                                       !.complete = FALSE], "APPLY")
  <2>1. "APPLY" \in States
    BY DEF States
  <2>2. /\ fd' \in FdType /\ fd'.state = "APPLY" /\ fd'.req = "READY"
        /\ fd'.complete = FALSE /\ fd'.update_comp = f.update_comp
        /\ fd'.ua_address = f.ua_address /\ fd'.max_transfer = f.max_transfer
    BY <1>1, <1>3, <2>1, NextOperationFields
  <2>3. f.state = "VERIFY" /\ f.req = "SENT" /\ f.result = "SUCCESS"
    BY <1>1, <1>3 DEF SameUpdate
  <2>4. Good(fd', app)
    BY <1>1, <2>2, <2>3 DEF Good, FDDriven
  <2>5. QED
    BY <1>1, <2>4
<1>4. CASE fd' = [f EXCEPT !.req = "FAILED"]
  BY <1>1, <1>4, FailedGood
<1>5. QED
  BY <1>2, <1>3, <1>4 DEF VerifyCompleteResp, f

\* ApplyComplete's response: the component is done, or stop.
LEMMA ApplyCompleteRespStep ==
    ASSUME Good(fd, app), fd.req = "SENT", ApplyCompleteResp
    PROVE  Good(fd', app')
<1> DEFINE f == TouchT1(fd)
<1>1. Good(f, app) /\ SameUpdate(fd, f) /\ f \in FdType /\ UNCHANGED app
  BY TouchT1Good DEF Good, ApplyCompleteResp
<1> HIDE DEF f
<1>2. CASE fd' = f
  BY <1>1, <1>2
<1>3. CASE /\ fd.state = "APPLY" /\ fd.result = "SUCCESS"
           /\ fd' = SetState([f EXCEPT !.req = "UNUSED"], "READY_XFER")
  <2> DEFINE h == [f EXCEPT !.req = "UNUSED"]
  <2>1. /\ h \in FdType /\ h.req = "UNUSED"
        /\ h.ua_address = f.ua_address /\ h.max_transfer = f.max_transfer
        /\ "READY_XFER" \in States
    BY <1>1 DEF FdType, ReqStates, States
  <2>2. fd' = SetState(h, "READY_XFER")
    BY <1>3
  <2> HIDE DEF h
  <2>3. /\ fd' \in FdType /\ fd'.state = "READY_XFER" /\ fd'.req = "UNUSED"
        /\ fd'.ua_address = f.ua_address /\ fd'.max_transfer = f.max_transfer
    BY <2>1, <2>2, SetStateFields
  <2>4. f.state = "APPLY" /\ f.req = "SENT" /\ f.result = "SUCCESS"
    BY <1>1, <1>3 DEF SameUpdate
  <2>5. Good(fd', app)
    BY <1>1, <2>3, <2>4 DEF Good, FDDriven
  <2>6. QED
    BY <1>1, <2>5
<1>4. CASE fd' = [f EXCEPT !.req = "FAILED"]
  BY <1>1, <1>4, FailedGood
<1>5. QED
  BY <1>2, <1>3, <1>4 DEF ApplyCompleteResp, f

-----------------------------------------------------------------------------
(* pldm_fd_progress *)

\* A request is sent, or its buffer is too small, and T1 is checked.
LEMMA SendThenT1CheckStep ==
    ASSUME NEW f, NEW a, Good(f, a), f.state \in FDDriven,
           f.state # "DOWNLOAD" => f.complete,
           NEW encoded \in BOOLEAN,
           SendThenT1Check(f, a, FittingCommand(f), encoded)
    PROVE  Good(fd', app')
<1> DEFINE g == NextInstance(f)
<1>1. Good(g, a) /\ SameUpdate(f, g)
  BY NextInstanceGood
<1>2. T1Check(IF encoded THEN SendReq(g, FittingCommand(f)) ELSE g, a)
  BY DEF SendThenT1Check
<1> HIDE DEF g
<1>3. CASE encoded
  <2>1. /\ g.state \in FDDriven
        /\ g.state # "DOWNLOAD" => g.complete
        /\ FittingCommand(g) = FittingCommand(f)
    BY <1>1 DEF SameUpdate, FittingCommand
  <2>2. Good(SendReq(g, FittingCommand(f)), a)
    BY <1>1, <2>1, SendReqGood
  <2>3. T1Check(SendReq(g, FittingCommand(f)), a)
    BY <1>2, <1>3
  <2>4. QED
    BY <2>2, <2>3, T1CheckGood
<1>4. CASE ~encoded
  <2>1. T1Check(g, a)
    BY <1>2, <1>4
  <2>2. QED
    BY <1>1, <2>1, T1CheckGood
<1>5. QED
  BY <1>3, <1>4

\* The download: RequestFirmwareData, or TransferComplete.
LEMMA ProgressDownloadStep ==
    ASSUME Good(fd, app), NEW delay \in Nat, NEW encoded \in BOOLEAN,
           ProgressDownload(delay, encoded)
    PROVE  Good(fd', app')
<1> DEFINE f == Elapse(fd, delay)
<1>1. Good(f, app) /\ SameUpdate(fd, f)
  BY ElapseGood
<1> HIDE DEF f
<1>2. CASE T1Check(f, app)
  BY <1>1, <1>2, T1CheckGood
<1>3. CASE SendThenT1Check(f, app, IF fd.complete THEN "TRANSFER_COMPLETE"
                                   ELSE "REQUEST_FIRMWARE_DATA", encoded)
  <2>1. f.state = "DOWNLOAD" /\ f.complete = fd.complete
    BY <1>1 DEF ProgressDownload, SameUpdate
  <2>2. FittingCommand(f) = IF fd.complete THEN "TRANSFER_COMPLETE"
                            ELSE "REQUEST_FIRMWARE_DATA"
    BY <2>1 DEF FittingCommand
  <2>3. f.state \in FDDriven /\ (f.state # "DOWNLOAD" => f.complete)
    BY <2>1 DEF FDDriven
  <2>4. SendThenT1Check(f, app, FittingCommand(f), encoded)
    BY <1>3, <2>2
  <2>5. QED
    BY <1>1, <2>3, <2>4, SendThenT1CheckStep
<1>4. QED
  BY <1>2, <1>3 DEF ProgressDownload, f

\* Recording the outcome of verify or apply in the request slot.
LEMMA OutcomeFields ==
    ASSUME NEW f \in FdType, NEW r \in Results
    PROVE  LET g == [f EXCEPT !.complete = TRUE, !.result = r]
           IN  /\ g \in FdType /\ g.state = f.state /\ g.offset = f.offset
               /\ g.update_comp = f.update_comp
               /\ g.req = f.req /\ g.complete = TRUE /\ g.result = r
               /\ g.command = f.command
               /\ g.ua_address = f.ua_address /\ g.max_transfer = f.max_transfer
BY DEF FdType

\* ops->verify is called in step with the application, and its outcome recorded.
LEMMA VerifyGood ==
    ASSUME NEW f, NEW a, Good(f, a), f.state = "VERIFY", ~f.complete,
           NEW res \in CallbackResults, NEW pending \in BOOLEAN
    PROVE  LET b == CbVerify(a, f.update_comp, res, pending)
               r == IF pending THEN "VENDOR_RESULT_RANGE_MAX" ELSE res
           IN  /\ pending => Good(f, b)
               /\ Good([f EXCEPT !.complete = TRUE, !.result = r], b)
<1> DEFINE b == CbVerify(a, f.update_comp, res, pending)
           r == IF pending THEN "VENDOR_RESULT_RANGE_MAX" ELSE res
           g == [f EXCEPT !.complete = TRUE, !.result = r]
<1>1. /\ f \in FdType /\ a \in AppType /\ a.ok /\ a.current_update
      /\ a.transferred /\ ~a.verified /\ ~a.applied /\ f.update_comp = a.update_comp
  BY DEF Good, FDDriven
<1>2. /\ b \in AppType /\ b.ok /\ b.current_update
      /\ b.update_comp = a.update_comp /\ b.offset = a.offset
      /\ b.transferred /\ ~b.applied
      /\ b.verified <=> res = "SUCCESS" /\ ~pending
  BY <1>1 DEF CbVerify, Check, AppType
<1>3. r \in Results /\ (r = "SUCCESS" <=> res = "SUCCESS" /\ ~pending)
  BY DEF Results
<1> HIDE DEF r, b
<1>4. /\ g \in FdType /\ g.state = f.state /\ g.offset = f.offset
      /\ g.update_comp = f.update_comp
      /\ g.req = f.req /\ g.complete = TRUE /\ g.result = r
      /\ g.command = f.command
      /\ g.ua_address = f.ua_address /\ g.max_transfer = f.max_transfer
  BY <1>1, <1>3, OutcomeFields
<1> HIDE DEF g
<1>5. pending => Good(f, b)
  BY <1>1, <1>2 DEF Good, FDDriven
<1>6. Good(g, b)
  BY <1>1, <1>2, <1>3, <1>4 DEF Good, FDDriven
<1>7. QED
  BY <1>5, <1>6 DEF g, r, b

\* The verify state: wait, verify, or VerifyComplete.
LEMMA ProgressVerifyStep ==
    ASSUME Good(fd, app), NEW res \in CallbackResults, NEW pending \in BOOLEAN,
           NEW delay \in Nat, NEW encoded \in BOOLEAN,
           ProgressVerify(res, pending, delay, encoded)
    PROVE  Good(fd', app')
<1> DEFINE f == Elapse(fd, delay)
           b == CbVerify(app, fd.update_comp, res, pending)
           r == IF pending THEN "VENDOR_RESULT_RANGE_MAX" ELSE res
           g == [f EXCEPT !.complete = TRUE, !.result = r]
<1>1. Good(f, app) /\ SameUpdate(fd, f) /\ f \in FdType
  <2>1. Good(f, app) /\ SameUpdate(fd, f)
    BY ElapseGood
  <2> HIDE DEF f
  <2> QED
    BY <2>1 DEF Good
<1>2. /\ f.state = "VERIFY" /\ f.complete = fd.complete
      /\ f.update_comp = fd.update_comp
  BY <1>1 DEF ProgressVerify, SameUpdate
<1> HIDE DEF f
<1>3. CASE T1Check(f, app)
  BY <1>1, <1>3, T1CheckGood
<1>4. CASE fd.complete /\ SendThenT1Check(f, app, "VERIFY_COMPLETE", encoded)
  <2>1. FittingCommand(f) = "VERIFY_COMPLETE" /\ f.state \in FDDriven
    BY <1>2 DEF FittingCommand, FDDriven
  <2>2. SendThenT1Check(f, app, FittingCommand(f), encoded)
    BY <1>4, <2>1
  <2>3. QED
    BY <1>1, <1>2, <1>4, <2>1, <2>2, SendThenT1CheckStep
<1>5. CASE ~fd.complete /\ pending /\ T1Check(f, b)
  <2>1. Good(f, b)
    BY <1>1, <1>2, <1>5, VerifyGood
  <2>2. QED
    BY <1>5, <2>1, T1CheckGood
<1>6. CASE ~fd.complete /\ SendThenT1Check(g, b, "VERIFY_COMPLETE", encoded)
  <2>1. Good(g, b)
    BY <1>1, <1>2, <1>6, VerifyGood
  <2>2. g.state = "VERIFY" /\ g.complete = TRUE
    BY <1>1, <1>2 DEF FdType
  <2> HIDE DEF g, b
  <2>3. FittingCommand(g) = "VERIFY_COMPLETE" /\ g.state \in FDDriven
    BY <2>2 DEF FittingCommand, FDDriven
  <2>4. SendThenT1Check(g, b, FittingCommand(g), encoded)
    BY <1>6, <2>3
  <2>5. QED
    BY <2>1, <2>2, <2>3, <2>4, SendThenT1CheckStep
<1>7. QED
  BY <1>3, <1>4, <1>5, <1>6 DEF ProgressVerify, f

\* ops->apply is called in step with the application, its outcome recorded, and
\* the update over for both when it succeeded.
LEMMA ApplyGood ==
    ASSUME NEW f, NEW a, Good(f, a), f.state = "APPLY", ~f.complete,
           NEW res \in CallbackResults, NEW pending \in BOOLEAN
    PROVE  LET b == CbApply(a, f.update_comp, res, pending)
               r == ApplyResult(res, pending)
           IN  /\ pending => Good(f, b)
               /\ Good([f EXCEPT !.complete = TRUE, !.result = r], b)
<1> DEFINE b == CbApply(a, f.update_comp, res, pending)
           r == ApplyResult(res, pending)
           g == [f EXCEPT !.complete = TRUE, !.result = r]
           done == ~pending /\ res \in {"SUCCESS", "SUCCESS_WITH_ACTIVATION_METHOD"}
<1>1. /\ f \in FdType /\ a \in AppType /\ a.ok /\ a.current_update
      /\ a.transferred /\ a.verified /\ ~a.applied /\ f.update_comp = a.update_comp
  BY DEF Good, FDDriven
<1>2. /\ b \in AppType /\ b.ok
      /\ b.current_update <=> ~done
      /\ b.update_comp = a.update_comp /\ b.offset = a.offset
      /\ b.transferred /\ b.verified
      /\ b.applied <=> done
  BY <1>1 DEF CbApply, Check, AppType
<1>3. r \in Results /\ (r = "SUCCESS" <=> done)
  BY DEF ApplyResult, Results, CallbackResults
<1>4. pending => ~done
  OBVIOUS
<1> HIDE DEF r, b, done
<1>5. /\ g \in FdType /\ g.state = f.state /\ g.offset = f.offset
      /\ g.update_comp = f.update_comp
      /\ g.req = f.req /\ g.complete = TRUE /\ g.result = r
      /\ g.command = f.command
      /\ g.ua_address = f.ua_address /\ g.max_transfer = f.max_transfer
  BY <1>1, <1>3, OutcomeFields
<1> HIDE DEF g
<1>6. pending => Good(f, b)
  BY <1>1, <1>2, <1>4 DEF Good, FDDriven
<1>7. Good(g, b)
  BY <1>1, <1>2, <1>3, <1>5 DEF Good, FDDriven
<1>8. QED
  BY <1>6, <1>7 DEF g, r, b

\* The apply state: wait, apply, or ApplyComplete.
LEMMA ProgressApplyStep ==
    ASSUME Good(fd, app), NEW res \in CallbackResults, NEW pending \in BOOLEAN,
           NEW delay \in Nat, NEW encoded \in BOOLEAN,
           ProgressApply(res, pending, delay, encoded)
    PROVE  Good(fd', app')
<1> DEFINE f == Elapse(fd, delay)
           b == CbApply(app, fd.update_comp, res, pending)
           g == [f EXCEPT !.complete = TRUE, !.result = ApplyResult(res, pending)]
<1>1. Good(f, app) /\ SameUpdate(fd, f) /\ f \in FdType
  <2>1. Good(f, app) /\ SameUpdate(fd, f)
    BY ElapseGood
  <2> HIDE DEF f
  <2> QED
    BY <2>1 DEF Good
<1>2. /\ f.state = "APPLY" /\ f.complete = fd.complete
      /\ f.update_comp = fd.update_comp
  BY <1>1 DEF ProgressApply, SameUpdate
<1> HIDE DEF f
<1>3. CASE T1Check(f, app)
  BY <1>1, <1>3, T1CheckGood
<1>4. CASE fd.complete /\ SendThenT1Check(f, app, "APPLY_COMPLETE", encoded)
  <2>1. FittingCommand(f) = "APPLY_COMPLETE" /\ f.state \in FDDriven
    BY <1>2 DEF FittingCommand, FDDriven
  <2>2. SendThenT1Check(f, app, FittingCommand(f), encoded)
    BY <1>4, <2>1
  <2>3. QED
    BY <1>1, <1>2, <1>4, <2>1, <2>2, SendThenT1CheckStep
<1>5. CASE ~fd.complete /\ pending /\ T1Check(f, b)
  <2>1. Good(f, b)
    BY <1>1, <1>2, <1>5, ApplyGood
  <2>2. QED
    BY <1>5, <2>1, T1CheckGood
<1>6. CASE ~fd.complete /\ SendThenT1Check(g, b, "APPLY_COMPLETE", encoded)
  <2>1. Good(g, b)
    BY <1>1, <1>2, <1>6, ApplyGood
  <2>2. g.state = "APPLY" /\ g.complete = TRUE
    BY <1>1, <1>2 DEF FdType
  <2> HIDE DEF g, b
  <2>3. FittingCommand(g) = "APPLY_COMPLETE" /\ g.state \in FDDriven
    BY <2>2 DEF FittingCommand, FDDriven
  <2>4. SendThenT1Check(g, b, FittingCommand(g), encoded)
    BY <1>6, <2>3
  <2>5. QED
    BY <2>1, <2>2, <2>3, <2>4, SendThenT1CheckStep
<1>7. QED
  BY <1>3, <1>4, <1>5, <1>6 DEF ProgressApply, f

\* The UA-driven states: only the T1 check.
LEMMA ProgressOtherStep ==
    ASSUME Good(fd, app), NEW delay \in Nat, ProgressOther(delay)
    PROVE  Good(fd', app')
BY ElapseGood, T1CheckGood DEF ProgressOther

-----------------------------------------------------------------------------
(* The theorems *)

\* pldm_fd_setup leaves the responder and the application in a good state.
LEMMA InitGood == Init => Good(fd, app)
<1> SUFFICES ASSUME Init PROVE Good(fd, app)
  OBVIOUS
<1>1. PICK id \in Components, age \in 0 .. MaxAge :
         fd = [state |-> "IDLE", prev_state |-> "IDLE",
               reason |-> "INITIALIZATION", offset |-> 0,
               update_comp |-> [id |-> id, size |-> 0],
               req |-> "UNUSED", complete |-> FALSE, result |-> "SUCCESS",
               instance_id |-> 0, command |-> "NONE",
               ua_address |-> NoUA, max_transfer |-> 0,
               t1_age |-> age, sent_age |-> age,
               fd_t1_timeout |-> DEFAULT_FD_T1_TIMEOUT,
               fd_t2_retry_time |-> DEFAULT_FD_T2_RETRY_TIME]
  BY DEF Init
<1>2. [id |-> id, size |-> 0] \in CompType
  BY DEF CompType
<1>3. 0 \in 0 .. (INSTANCE_ID_COUNT - 1)
  BY SizesAssumption DEF SizesAssumption
<1>4. DEFAULT_FD_T1_TIMEOUT \in T1Times /\ DEFAULT_FD_T2_RETRY_TIME \in T2Times
  BY TimesAssumption DEF TimesAssumption
<1>5. /\ fd \in FdType /\ fd.update_comp \in CompType
      /\ fd.state = "IDLE" /\ fd.req = "UNUSED" /\ fd.ua_address = NoUA
  BY <1>1, <1>2, <1>3, <1>4
     DEF FdType, States, Reasons, ReqStates, Results, CallbackResults
<1>6. app \in AppType /\ app.ok /\ ~app.current_update
  BY <1>5 DEF Init, AppType
<1>7. QED
  BY <1>5, <1>6 DEF Good, FDDriven

\* The setters and the clock change no field the invariant reads.
LEMMA SettingStep ==
    ASSUME Good(fd, app), Setting \/ Tick
    PROVE  Good(fd', app')
<1>1. fd \in FdType
  BY DEF Good
<1>2. CASE Setting
  <2>1. fd' \in FdType /\ SameUpdate(fd, fd') /\ UNCHANGED app
    BY <1>1, <1>2 DEF Setting, SetUpdateIdleTimeout, SetRequestRetryTime,
                      FdType, SameUpdate
  <2>2. QED
    BY <2>1, FrameGood
<1>3. CASE Tick
  BY <1>3, ElapseGood DEF Tick
<1>4. QED
  BY <1>2, <1>3

\* Every step keeps the invariant.
LEMMA NextGood == IInv /\ [Next]_vars => IInv'
<1> SUFFICES ASSUME Good(fd, app), [Next]_vars PROVE Good(fd', app')
  BY GoodIsIInv
<1>1. CASE Request
  BY <1>1, RequestUpdateStep, PassComponentTableStep, UpdateComponentStep,
     CancelUpdateComponentStep, CancelUpdateStep, ActivateFirmwareStep
     DEF Request, RequestFrom
<1>2. CASE Response
  BY <1>2, FwdataRespStep, TransferCompleteRespStep, VerifyCompleteRespStep,
     ApplyCompleteRespStep DEF Response, ResponseFrom, HandleResp, MatchesRequest
<1>3. CASE Progress
  <2>1. Delays \subseteq Nat
    BY TimesAssumption DEF TimesAssumption
  <2>2. QED
    BY <1>3, <2>1, ProgressDownloadStep, ProgressVerifyStep, ProgressApplyStep,
       ProgressOtherStep DEF Progress
<1>4. CASE Setting \/ Tick
  BY <1>4, SettingStep
<1>5. CASE UNCHANGED vars
  BY <1>5 DEF vars
<1>6. QED
  BY <1>1, <1>2, <1>3, <1>4, <1>5 DEF Next

\* The inductive invariant holds in every reachable state of the responder.
THEOREM Invariance == Spec => []IInv
<1>1. Init => IInv
  BY InitGood, GoodIsIInv
<1>2. QED
  BY <1>1, NextGood, PTL DEF Spec

\* struct pldm_fd and the application's context keep their types, for all
\* components, image and transfer sizes, timeouts and delays.
THEOREM TypeCorrect == Spec => []TypeOK
BY Invariance, PTL DEF IInv

\* No assertion of the application's callbacks ever fails: the responder calls
\* update, firmware_data, verify, apply, activate and cancel in the right order
\* whatever the UA, the network, the clock and the application do.
THEOREM ContractKept == Spec => []AppContract
BY Invariance, PTL DEF IInv

\* The application has an update in progress exactly while the responder is
\* downloading, verifying or applying one.
THEOREM NoneOrphaned == Spec => []NoOrphanedUpdate
BY Invariance, PTL DEF IInv

\* The assert()s of fd.c never fail.
THEOREM AssertsNeverFail == Spec => []AssertsHold
BY Invariance, PTL DEF IInv

\* The request outstanding in a state is that state's own.
THEOREM RequestsFit == Spec => []RequestFitsState
BY Invariance, PTL DEF IInv

\* The responder and the application agree on the update.
THEOREM InStep == Spec => []AppInStep
BY Invariance, PTL DEF IInv

\* Every RequestFirmwareData asks for at least one byte of a non-empty image, for
\* any transfer sizes the UA and the application name.
THEOREM DownloadMakesProgress == Spec => []RequestsMakeProgress
<1>1. ASSUME Good(fd, app) PROVE RequestsMakeProgress
  <2> SUFFICES ASSUME fd.state = "DOWNLOAD", ~fd.complete, fd.update_comp.size > 0
               PROVE  FwdataSize(fd) > 0
    BY DEF RequestsMakeProgress
  <2>1. fd.offset < fd.update_comp.size
    <3>1. fd.offset \in Nat /\ fd.update_comp.size \in Nat
      BY <1>1, FwdataSizeBounds
    <3>2. fd.offset < fd.update_comp.size \/ fd.update_comp.size = 0
      BY <1>1 DEF Good
    <3> QED
      BY <3>1, <3>2
  <2>2. QED
    BY <1>1, <2>1, FwdataSizeBounds
<1>2. IInv => RequestsMakeProgress
  BY <1>1, GoodIsIInv
<1>3. QED
  BY <1>2, Invariance, PTL

\* The last T1 check of pldm_fd_progress keeps the UA, or ends in IDLE.
LEMMA T1CheckKeepsUA ==
    ASSUME NEW f, f \in FdType, NEW a, T1Check(f, a)
    PROVE  fd' = f \/ fd'.state = "IDLE"
BY DEF T1Check, IdleTimeout, SetIdle, FdType

\* Sending a request keeps the UA, or ends in IDLE.
LEMMA SendThenT1CheckKeepsUA ==
    ASSUME NEW f, NEW a, Good(f, a), f.state \in FDDriven,
           NEW command \in Commands, NEW encoded \in BOOLEAN,
           SendThenT1Check(f, a, command, encoded)
    PROVE  fd'.ua_address = f.ua_address \/ fd'.state = "IDLE"
<1> DEFINE g == NextInstance(f)
           h == SendReq(g, command)
<1>1. g \in FdType /\ g.ua_address = f.ua_address
  BY NextInstanceGood DEF Good, SameUpdate
<1> HIDE DEF g
<1>2. 0 \in 0 .. MaxAge /\ "SENT" \in ReqStates
  BY TimesAssumption DEF TimesAssumption, ReqStates
<1>3. h \in FdType /\ h.ua_address = f.ua_address
  BY <1>1, <1>2 DEF SendReq, FdType
<1> HIDE DEF h
<1>4. T1Check(h, a) \/ T1Check(g, a)
  BY DEF SendThenT1Check, g, h
<1>5. QED
  BY <1>1, <1>3, <1>4, T1CheckKeepsUA

\* pldm_fd_progress keeps the UA, or ends in IDLE.
LEMMA ProgressKeepsUA ==
    ASSUME Good(fd, app), Progress
    PROVE  fd'.ua_address = fd.ua_address \/ fd'.state = "IDLE"
<1>1. PICK delay \in Delays, encoded \in BOOLEAN :
         \/ ProgressDownload(delay, encoded)
         \/ \E res \in CallbackResults, pending \in BOOLEAN :
               \/ ProgressVerify(res, pending, delay, encoded)
               \/ ProgressApply(res, pending, delay, encoded)
         \/ ProgressOther(delay)
  BY DEF Progress
<1>2. delay \in Nat
  BY TimesAssumption DEF TimesAssumption
<1> DEFINE f == Elapse(fd, delay)
<1>3. Good(f, app) /\ SameUpdate(fd, f) /\ f \in FdType /\ f.ua_address = fd.ua_address
  <2>1. Good(f, app) /\ SameUpdate(fd, f)
    BY <1>2, ElapseGood
  <2> HIDE DEF f
  <2>2. f \in FdType
    BY <2>1 DEF Good
  <2>3. f.ua_address = fd.ua_address
    BY <2>1 DEF SameUpdate
  <2>4. QED
    BY <2>1, <2>2, <2>3
<1> HIDE DEF f
<1>4. CASE \E a : T1Check(f, a)
  BY <1>3, <1>4, T1CheckKeepsUA
<1>5. CASE /\ fd.state \in FDDriven
           /\ \E command \in Commands : SendThenT1Check(f, app, command, encoded)
  <2>1. f.state \in FDDriven
    BY <1>3, <1>5 DEF SameUpdate
  <2>2. QED
    BY <1>3, <1>5, <2>1, SendThenT1CheckKeepsUA
<1>6. ASSUME NEW res \in CallbackResults, NEW pending \in BOOLEAN,
             fd.state = "VERIFY", ~fd.complete,
             SendThenT1Check([f EXCEPT !.complete = TRUE,
                                !.result = IF pending THEN "VENDOR_RESULT_RANGE_MAX"
                                           ELSE res],
                             CbVerify(app, fd.update_comp, res, pending),
                             "VERIFY_COMPLETE", encoded)
      PROVE  fd'.ua_address = fd.ua_address \/ fd'.state = "IDLE"
  <2> DEFINE r == IF pending THEN "VENDOR_RESULT_RANGE_MAX" ELSE res
             g == [f EXCEPT !.complete = TRUE, !.result = r]
             b == CbVerify(app, fd.update_comp, res, pending)
  <2>1. /\ f.state = "VERIFY" /\ ~f.complete
        /\ f.update_comp = fd.update_comp
    BY <1>3, <1>6 DEF SameUpdate
  <2>2. Good(g, b)
    BY <1>3, <1>6, <2>1, VerifyGood
  <2>3. g.ua_address = f.ua_address /\ g.state \in FDDriven
    BY <1>3, <2>1 DEF FdType, FDDriven
  <2>4. SendThenT1Check(g, b, "VERIFY_COMPLETE", encoded)
    BY <1>6
  <2> HIDE DEF g, b, r
  <2>5. QED
    BY <1>3, <2>2, <2>3, <2>4, SendThenT1CheckKeepsUA DEF Commands
<1>7. ASSUME NEW res \in CallbackResults, NEW pending \in BOOLEAN,
             fd.state = "APPLY", ~fd.complete,
             SendThenT1Check([f EXCEPT !.complete = TRUE,
                                       !.result = ApplyResult(res, pending)],
                             CbApply(app, fd.update_comp, res, pending),
                             "APPLY_COMPLETE", encoded)
      PROVE  fd'.ua_address = fd.ua_address \/ fd'.state = "IDLE"
  <2> DEFINE g == [f EXCEPT !.complete = TRUE, !.result = ApplyResult(res, pending)]
             b == CbApply(app, fd.update_comp, res, pending)
  <2>1. /\ f.state = "APPLY" /\ ~f.complete
        /\ f.update_comp = fd.update_comp
    BY <1>3, <1>7 DEF SameUpdate
  <2>2. Good(g, b)
    BY <1>3, <1>7, <2>1, ApplyGood
  <2>3. g.ua_address = f.ua_address /\ g.state \in FDDriven
    BY <1>3, <2>1 DEF FdType, FDDriven
  <2>4. SendThenT1Check(g, b, "APPLY_COMPLETE", encoded)
    BY <1>7
  <2> HIDE DEF g, b
  <2>5. QED
    BY <1>3, <2>2, <2>3, <2>4, SendThenT1CheckKeepsUA DEF Commands
<1>8. CASE ProgressDownload(delay, encoded)
  BY <1>4, <1>5, <1>8 DEF ProgressDownload, f, FDDriven, Commands
<1>9. ASSUME NEW res \in CallbackResults, NEW pending \in BOOLEAN,
             ProgressVerify(res, pending, delay, encoded)
      PROVE  fd'.ua_address = fd.ua_address \/ fd'.state = "IDLE"
  BY <1>4, <1>5, <1>6, <1>9 DEF ProgressVerify, f, FDDriven, Commands
<1>10. ASSUME NEW res \in CallbackResults, NEW pending \in BOOLEAN,
              ProgressApply(res, pending, delay, encoded)
       PROVE  fd'.ua_address = fd.ua_address \/ fd'.state = "IDLE"
  BY <1>4, <1>5, <1>7, <1>10 DEF ProgressApply, f, FDDriven, Commands
<1>11. CASE ProgressOther(delay)
  BY <1>4, <1>11 DEF ProgressOther, f
<1>12. QED
  BY <1>1, <1>8, <1>9, <1>10, <1>11

\* Update mode belongs to one UA from RequestUpdate until the responder is idle
\* again, whichever terminus sends whichever message in between, and a message of
\* another terminus restarts T1 at most, unless it is a CancelUpdate.
THEOREM OneUA == Spec => SessionHasOneUA
<1>1. ASSUME Good(fd, app), [Next]_vars, fd.state # "IDLE", fd'.state # "IDLE"
      PROVE  fd'.ua_address = fd.ua_address
  <2> DEFINE f == TouchT1(fd)
  <2>1. fd \in FdType /\ f \in FdType /\ f.ua_address = fd.ua_address
    BY <1>1, TouchT1Good DEF Good, SameUpdate
  <2> HIDE DEF f
  <2>2. CASE Request
    <3>1. CASE \E tid \in TIDs, m, n \in TransferSizes : RequestUpdate(tid, m, n)
      BY <1>1, <2>1, <3>1 DEF RequestUpdate, OnlyTouchT1, f
    <3>2. ASSUME NEW tid \in TIDs, NEW id \in Components, NEW end \in BOOLEAN,
                 PassComponentTable(tid, id, end)
          PROVE  fd'.ua_address = fd.ua_address
      <4>1. \/ fd' = f
            \/ fd' = [f EXCEPT !.update_comp.size = 0]
            \/ LET stored == [f EXCEPT !.update_comp = [id |-> id, size |-> 0]]
               IN  fd' = stored \/ fd' = SetState(stored, "READY_XFER")
        BY <3>2 DEF PassComponentTable, f
      <4>2. QED
        BY <2>1, <4>1 DEF SetState, FdType
    <3>3. ASSUME NEW tid \in TIDs, NEW comp \in [id : Components, size : ImageSizes],
                 UpdateComponent(tid, comp)
          PROVE  fd'.ua_address = fd.ua_address
      <4> DEFINE stored == [f EXCEPT !.update_comp = comp]
                 g == [stored EXCEPT !.offset = 0, !.req = "READY", !.complete = FALSE]
      <4>1. fd' = f \/ fd' = stored \/ fd' = SetState(g, "DOWNLOAD")
        BY <3>3 DEF UpdateComponent, OnlyTouchT1, f
      <4>2. comp \in CompType
        BY DEF CompType
      <4>3. stored \in FdType /\ stored.ua_address = fd.ua_address
        BY <2>1, <4>2 DEF FdType
      <4>4. g \in FdType /\ g.ua_address = stored.ua_address
        BY <4>3 DEF FdType, ReqStates
      <4> HIDE DEF stored, g
      <4>5. QED
        BY <2>1, <4>1, <4>3, <4>4, SetStateFields DEF States
    <3>4. ASSUME NEW tid \in TIDs, CancelUpdateComponent(tid)
          PROVE  fd'.ua_address = fd.ua_address
      BY <2>1, <3>4, SetStateFields DEF CancelUpdateComponent, States
    <3>5. CASE CancelUpdate
      BY <1>1, <2>1, <3>5 DEF CancelUpdate, OnlyTouchT1, SetIdle, FdType, f
    <3>6. ASSUME NEW tid \in TIDs, NEW activated \in BOOLEAN,
                 ActivateFirmware(tid, activated)
          PROVE  fd'.ua_address = fd.ua_address
      <4>1. SetState(fd, "ACTIVATE") \in FdType
        BY <2>1, SetStateFields DEF States
      <4>2. SetIdle(SetState(fd, "ACTIVATE"), "ACTIVATE_FW").state = "IDLE"
        BY <4>1 DEF SetIdle, FdType
      <4>3. QED
        BY <1>1, <3>6, <4>2 DEF ActivateFirmware
    <3>7. QED
      BY <2>2, <3>1, <3>2, <3>3, <3>4, <3>5, <3>6 DEF Request, RequestFrom
  <2>3. CASE Response
    <3>1. \/ \E cc, len, res : FwdataResp(cc, len, res)
          \/ TransferCompleteResp \/ VerifyCompleteResp \/ ApplyCompleteResp
      BY <2>3 DEF Response, ResponseFrom, HandleResp
    <3>2. CASE \E cc, len, res : FwdataResp(cc, len, res)
      BY <2>1, <3>2 DEF FwdataResp, f, FdType
    <3> DEFINE next == [f EXCEPT !.offset = 0, !.req = "READY", !.complete = FALSE]
               done == [f EXCEPT !.req = "UNUSED"]
    <3>3. /\ next \in FdType /\ next.ua_address = f.ua_address
          /\ done \in FdType /\ done.ua_address = f.ua_address
      BY <2>1 DEF FdType, ReqStates
    <3>4. CASE TransferCompleteResp \/ VerifyCompleteResp \/ ApplyCompleteResp
      <4>1. \/ fd' = f
            \/ fd' = [f EXCEPT !.req = "FAILED"]
            \/ fd' = SetState(next, "VERIFY")
            \/ fd' = SetState(next, "APPLY")
            \/ fd' = SetState(done, "READY_XFER")
        BY <3>4 DEF TransferCompleteResp, VerifyCompleteResp, ApplyCompleteResp, f
      <4>2. [f EXCEPT !.req = "FAILED"].ua_address = f.ua_address
        BY <2>1 DEF FdType
      <4> HIDE DEF next, done
      <4>3. ASSUME NEW s \in {"VERIFY", "APPLY"}, fd' = SetState(next, s)
            PROVE  fd'.ua_address = fd.ua_address
        BY <2>1, <3>3, <4>3, SetStateFields DEF States
      <4>4. ASSUME fd' = SetState(done, "READY_XFER")
            PROVE  fd'.ua_address = fd.ua_address
        BY <2>1, <3>3, <4>4, SetStateFields DEF States
      <4>5. QED
        BY <2>1, <4>1, <4>2, <4>3, <4>4
    <3>5. QED
      BY <3>1, <3>2, <3>4
  <2>4. CASE Progress
    BY <1>1, <2>4, ProgressKeepsUA
  <2>5. CASE Setting \/ Tick
    BY <2>1, <2>5 DEF Setting, SetUpdateIdleTimeout, SetRequestRetryTime, Tick,
                      Elapse, FdType
  <2>6. CASE UNCHANGED vars
    BY <2>6 DEF vars
  <2>7. QED
    BY <1>1, <2>2, <2>3, <2>4, <2>5, <2>6 DEF Next
<1>2. ASSUME IInv, [Next]_vars, fd.state # "IDLE",
             NEW tid \in TIDs \ {fd.ua_address}, RequestFrom(tid) \/ ResponseFrom(tid)
      PROVE  \/ fd' \in {fd, TouchT1(fd)} /\ UNCHANGED app
             \/ fd'.state = "IDLE" /\ ~app'.current_update
  <2>1. ~FromUA(tid) /\ ~ResponseFrom(tid)
    BY <1>2 DEF FromUA, ResponseFrom, MatchesRequest
  <2>2. \/ CancelUpdate
        \/ \E m, n \in TransferSizes : RequestUpdate(tid, m, n)
    BY <1>2, <2>1 DEF RequestFrom, PassComponentTable, UpdateComponent,
                      CancelUpdateComponent, ActivateFirmware
  <2>3. OnlyTouchT1 \/ fd' = SetIdle(TouchT1(fd), "CANCEL_UPDATE")
    BY <1>2, <2>2 DEF CancelUpdate, RequestUpdate
  <2>4. CASE OnlyTouchT1
    BY <2>4 DEF OnlyTouchT1
  <2>5. CASE fd' = SetIdle(TouchT1(fd), "CANCEL_UPDATE")
    <3>1. TouchT1(fd) \in FdType
      BY <1>2, GoodIsIInv, TouchT1Good DEF Good
    <3>2. fd'.state = "IDLE"
      BY <2>5, <3>1 DEF SetIdle, FdType
    <3>3. NoOrphanedUpdate'
      BY <1>2, NextGood DEF IInv
    <3>4. QED
      BY <3>2, <3>3 DEF NoOrphanedUpdate, FDDriven
  <2>6. QED
    BY <2>3, <2>4, <2>5
<1>3. IInv /\ [Next]_vars =>
        [fd.state # "IDLE" =>
          /\ fd'.state # "IDLE" => fd'.ua_address = fd.ua_address
          /\ \A tid \in TIDs \ {fd.ua_address} :
                RequestFrom(tid) \/ ResponseFrom(tid) =>
                   \/ fd' \in {fd, TouchT1(fd)} /\ UNCHANGED app
                   \/ fd'.state = "IDLE" /\ ~app'.current_update]_vars
  BY <1>1, <1>2, GoodIsIInv
<1>4. QED
  BY <1>3, Invariance, PTL DEF Spec, SessionHasOneUA

\* A failed operation stays failed, and sends nothing, until the UA cancels it
\* and the application has been told.
THEOREM FailureIsFinal == Spec => FailedUntilCancelled
<1> DEFINE Still == fd'.state = fd.state /\ fd'.req = "FAILED"
                       /\ fd'.instance_id = fd.instance_id
           Gone == fd'.state \in {"READY_XFER", "IDLE"} /\ ~app'.current_update
<1>1. ASSUME Good(fd, app), [Next]_vars, fd.state \in FDDriven, fd.req = "FAILED"
      PROVE  Still \/ Gone
  <2>1. fd \in FdType
    BY <1>1 DEF Good
  <2>2. fd.state \notin {"IDLE", "LEARN_COMPONENTS", "READY_XFER"}
    BY <1>1 DEF FDDriven
  <2>3. ASSUME fd' = TouchT1(fd) PROVE Still
    BY <1>1, <2>1, <2>3 DEF TouchT1, FdType
  <2>4. ~MaybeCancelComponent(fd, app).current_update
    BY <1>1, MaybeCancelEnds
  <2>5. CASE Request
    <3>1. ASSUME NEW tid \in TIDs, CancelUpdateComponent(tid) PROVE Gone
      BY <2>1, <2>4, <3>1, SetStateFields DEF CancelUpdateComponent, States
    <3>2. CASE CancelUpdate
      BY <2>1, <2>3, <2>4, <3>2
         DEF CancelUpdate, OnlyTouchT1, SetIdle, TouchT1, FdType
    <3>3. QED
      BY <2>2, <2>3, <2>5, <3>1, <3>2
         DEF Request, RequestFrom, RequestUpdate, PassComponentTable, UpdateComponent,
             ActivateFirmware, OnlyTouchT1
  <2>6. CASE Response
    BY <1>1, <2>6 DEF Response, ResponseFrom, HandleResp, MatchesRequest
  <2>7. CASE Progress
    <3>1. ASSUME NEW delay \in Delays, NEW a, T1Check(Elapse(fd, delay), a)
          PROVE  Still
      <4>1. /\ Elapse(fd, delay).state = fd.state
            /\ Elapse(fd, delay).req = "FAILED"
            /\ Elapse(fd, delay).instance_id = fd.instance_id
        BY <1>1, <2>1 DEF Elapse, FdType
      <4>2. ~T1Expired(Elapse(fd, delay))
        BY <1>1, <4>1 DEF T1Expired
      <4>3. QED
        BY <3>1, <4>1, <4>2 DEF T1Check
    <3>2. ~ReqShouldSend(fd)
      BY <1>1 DEF ReqShouldSend
    <3>3. \E delay \in Delays, a \in {app} : T1Check(Elapse(fd, delay), a)
      <4>1. PICK delay \in Delays, encoded \in BOOLEAN :
               \/ ProgressDownload(delay, encoded)
               \/ \E res \in CallbackResults, pending \in BOOLEAN :
                     \/ ProgressVerify(res, pending, delay, encoded)
                     \/ ProgressApply(res, pending, delay, encoded)
               \/ ProgressOther(delay)
        BY <2>7 DEF Progress
      <4>2. T1Check(Elapse(fd, delay), app)
        BY <3>2, <4>1 DEF ProgressDownload, ProgressVerify, ProgressApply,
                          ProgressOther
      <4>3. QED
        BY <4>2
    <3>4. QED
      BY <3>1, <3>3
  <2>8. CASE Setting \/ Tick
    BY <1>1, <2>1, <2>8 DEF Setting, SetUpdateIdleTimeout, SetRequestRetryTime,
                            Tick, Elapse, FdType
  <2>9. CASE UNCHANGED vars
    BY <1>1, <2>9 DEF vars
  <2>10. QED
    BY <1>1, <2>5, <2>6, <2>7, <2>8, <2>9 DEF Next
<1>2. IInv /\ [Next]_vars =>
        [fd.state \in FDDriven /\ fd.req = "FAILED" => Still \/ Gone]_vars
  BY <1>1, GoodIsIInv
<1>3. QED
  BY <1>2, Invariance, PTL DEF Spec, FailedUntilCancelled

\* one_percent of pldm_fd_get_status is rounded up, so that a hundred of it cover
\* the image: the quotient is at most 100, and 100 only at the end.
LEMMA PercentBounds ==
    ASSUME NEW size \in Nat \ {0}, NEW offset \in 0 .. size
    PROVE  /\ DownloadPercent(size, offset) \in 0 .. 100
           /\ DownloadPercent(size, offset) = 100 => offset = size
<1> DEFINE one == (size \div 100) + (IF size % 100 # 0 THEN 1 ELSE 0)
           p == offset \div one
<1>1. one \in Nat /\ one > 0 /\ size <= 100 * one
  OBVIOUS
<1> HIDE DEF one
<1>2. p \in Int /\ one * p <= offset /\ p >= 0
  BY <1>1
<1> HIDE DEF p
<1>3. ~(p >= 101)
  BY <1>1, <1>2
<1>4. p = 100 => offset = size
  BY <1>1, <1>2
<1>5. DownloadPercent(size, offset) = p
  BY DEF DownloadPercent, one, p
<1>6. QED
  BY <1>2, <1>3, <1>4, <1>5

\* The download percentage reported is between 0 and 100, and 100 only for a whole
\* image, for images and pieces of every size.
THEOREM PercentInRange == Spec => []DownloadPercentInRange
<1>1. ASSUME Good(fd, app) PROVE DownloadPercentInRange
  <2> SUFFICES ASSUME fd.state = "DOWNLOAD", fd.update_comp.size > 0
               PROVE  LET percent == DownloadPercent(fd.update_comp.size, fd.offset)
                      IN  /\ percent \in 0 .. 100
                          /\ percent = 100 => fd.offset = fd.update_comp.size
    BY DEF DownloadPercentInRange
  <2>1. fd.update_comp.size \in Nat \ {0} /\ fd.offset \in 0 .. fd.update_comp.size
    BY <1>1, FwdataSizeBounds
  <2>2. QED
    BY <2>1, PercentBounds
<1>2. IInv => DownloadPercentInRange
  BY <1>1, GoodIsIInv
<1>3. QED
  BY <1>2, Invariance, PTL

(***************************************************************************)
(* FirmwareUpdate: the responder and an update agent over a lossy link.    *)
(* Every byte of the image lands where it belongs.                         *)
(***************************************************************************)

\* RequestFirmwareData waits for its answer.
Asking(f) == f.req = "SENT" /\ f.state = "DOWNLOAD" /\ ~f.complete

\* No instance ID is used, and no question is asked that was not asked before.
Quiet(f, g) ==
    /\ g.instance_id = f.instance_id
    /\ Asking(g) => /\ Asking(f)
                    /\ g.offset = f.offset
                    /\ g.update_comp = f.update_comp

\* Restarting T1 is quiet.
LEMMA TouchT1Quiet ==
    ASSUME NEW f \in FdType
    PROVE  /\ TouchT1(f) \in FdType
           /\ TouchT1(f).instance_id = f.instance_id
           /\ TouchT1(f).state = f.state /\ TouchT1(f).req = f.req
           /\ TouchT1(f).complete = f.complete /\ TouchT1(f).offset = f.offset
           /\ TouchT1(f).update_comp = f.update_comp
<1>1. 0 \in 0 .. MaxAge
  BY TimesAssumption DEF TimesAssumption
<1>2. QED
  BY <1>1 DEF TouchT1, FdType

\* pldm_fd_set_state uses no instance ID.
LEMMA SetStateInstance ==
    ASSUME NEW f \in FdType, NEW s \in States
    PROVE  /\ SetState(f, s).instance_id = f.instance_id
           /\ SetState(f, s).state = s /\ SetState(f, s).req = f.req
BY DEF SetState, FdType

\* Every request handler is quiet.
LEMMA RequestQuiet ==
    ASSUME fd \in FdType, Request
    PROVE  Quiet(fd, fd')
<1> DEFINE f == TouchT1(fd)
<1>1. /\ f \in FdType /\ f.instance_id = fd.instance_id
      /\ f.state = fd.state /\ f.req = fd.req /\ f.complete = fd.complete
      /\ f.offset = fd.offset /\ f.update_comp = fd.update_comp
  BY TouchT1Quiet
<1> HIDE DEF f
<1>2. ASSUME fd' = f PROVE Quiet(fd, fd')
  BY <1>1, <1>2 DEF Quiet, Asking
<1>3. ASSUME fd'.instance_id = fd.instance_id, fd'.state # "DOWNLOAD"
      PROVE  Quiet(fd, fd')
  BY <1>3 DEF Quiet, Asking
<1>4. ASSUME NEW tid \in TIDs, NEW m \in TransferSizes, NEW n \in TransferSizes,
             RequestUpdate(tid, m, n)
      PROVE  Quiet(fd, fd')
  <2> DEFINE g == SetState(f, "LEARN_COMPONENTS")
  <2>1. g \in FdType /\ g.instance_id = f.instance_id /\ g.state = "LEARN_COMPONENTS"
    BY <1>1, SetStateFields, SetStateInstance DEF States
  <2> HIDE DEF g
  <2>2. \/ fd' = f
        \/ fd' = [g EXCEPT !.ua_address = tid, !.max_transfer = ClampTransfer(m, n)]
    BY <1>4 DEF RequestUpdate, OnlyTouchT1, f, g
  <2>3. ASSUME fd' = [g EXCEPT !.ua_address = tid, !.max_transfer = ClampTransfer(m, n)]
        PROVE  fd'.instance_id = g.instance_id /\ fd'.state = g.state
    BY <2>1, <2>3 DEF FdType
  <2>4. QED
    BY <1>1, <1>2, <1>3, <2>1, <2>2, <2>3
<1>5. ASSUME NEW tid \in TIDs, NEW id \in Components, NEW end \in BOOLEAN,
             PassComponentTable(tid, id, end)
      PROVE  Quiet(fd, fd')
  <2> DEFINE stored == [f EXCEPT !.update_comp = [id |-> id, size |-> 0]]
             cleared == [f EXCEPT !.update_comp.size = 0]
  <2>1. \/ fd' = f
        \/ fd.state = "LEARN_COMPONENTS" /\ fd' = cleared
        \/ fd.state = "LEARN_COMPONENTS" /\ fd' = stored
        \/ fd' = SetState(stored, "READY_XFER")
    BY <1>5 DEF PassComponentTable, f
  <2>2. stored \in FdType /\ stored.instance_id = fd.instance_id /\ stored.state = fd.state
    BY <1>1 DEF FdType, CompType
  <2>3. cleared.instance_id = fd.instance_id /\ cleared.state = fd.state
    BY <1>1 DEF FdType
  <2> HIDE DEF stored, cleared
  <2>4. /\ SetState(stored, "READY_XFER").instance_id = fd.instance_id
        /\ SetState(stored, "READY_XFER").state = "READY_XFER"
    BY <2>2, SetStateInstance DEF States
  <2>5. QED
    BY <1>2, <1>3, <2>1, <2>2, <2>3, <2>4
<1>6. ASSUME NEW tid \in TIDs, NEW comp \in [id : Components, size : ImageSizes],
             UpdateComponent(tid, comp)
      PROVE  Quiet(fd, fd')
  <2> DEFINE stored == [f EXCEPT !.update_comp = comp]
             g == [stored EXCEPT !.offset = 0, !.req = "READY", !.complete = FALSE]
             h == SetState(g, "DOWNLOAD")
  <2>1. fd' = f \/ (fd.state = "READY_XFER" /\ fd' = stored) \/ fd' = h
    BY <1>6 DEF UpdateComponent, OnlyTouchT1, f
  <2>2. comp \in CompType
    BY DEF CompType
  <2>3. stored \in FdType /\ stored.instance_id = fd.instance_id /\ stored.state = fd.state
    BY <1>1, <2>2 DEF FdType
  <2>4. g \in FdType /\ g.instance_id = fd.instance_id /\ g.req = "READY"
    BY <2>3 DEF FdType, ReqStates
  <2> HIDE DEF g, stored
  <2>5. h.instance_id = fd.instance_id /\ h.req = "READY"
    BY <2>4, SetStateInstance DEF States
  <2> HIDE DEF h
  <2>6. ASSUME fd' = h PROVE Quiet(fd, fd')
    BY <2>5, <2>6 DEF Quiet, Asking
  <2>7. QED
    BY <1>2, <1>3, <2>1, <2>3, <2>6
<1>7. ASSUME NEW tid \in TIDs, CancelUpdateComponent(tid)
      PROVE  Quiet(fd, fd')
  <2>1. fd'.instance_id = fd.instance_id /\ fd'.state = "READY_XFER"
    BY <1>7, SetStateInstance DEF CancelUpdateComponent, States
  <2>2. QED
    BY <1>3, <2>1
<1>8. ASSUME NEW g \in FdType, NEW why, g.instance_id = fd.instance_id,
             fd' = SetIdle(g, why)
      PROVE  Quiet(fd, fd')
  <2>1. fd'.instance_id = fd.instance_id /\ fd'.state = "IDLE"
    BY <1>8 DEF SetIdle, FdType
  <2>2. QED
    BY <1>3, <2>1
<1>9. CASE CancelUpdate
  BY <1>1, <1>2, <1>8, <1>9 DEF CancelUpdate, OnlyTouchT1, f
<1>10. ASSUME NEW tid \in TIDs, NEW activated \in BOOLEAN,
              ActivateFirmware(tid, activated)
       PROVE  Quiet(fd, fd')
  <2>1. /\ SetState(fd, "ACTIVATE") \in FdType
        /\ SetState(fd, "ACTIVATE").instance_id = fd.instance_id
    BY SetStateFields, SetStateInstance DEF States
  <2>2. fd' = fd \/ fd' = SetIdle(SetState(fd, "ACTIVATE"), "ACTIVATE_FW")
    BY <1>10 DEF ActivateFirmware
  <2>3. ASSUME fd' = fd PROVE Quiet(fd, fd')
    BY <2>3 DEF Quiet
  <2>4. QED
    BY <1>8, <2>1, <2>2, <2>3
<1>11. QED
  BY <1>4, <1>5, <1>6, <1>7, <1>9, <1>10 DEF Request, RequestFrom

\* Every response handler is quiet.
LEMMA ResponseQuiet ==
    ASSUME fd \in FdType, NEW cc, NEW len, NEW res, HandleResp(cc, len, res)
    PROVE  Quiet(fd, fd')
<1> DEFINE f == TouchT1(fd)
           next == [f EXCEPT !.offset = 0, !.req = "READY", !.complete = FALSE]
           done == [f EXCEPT !.req = "UNUSED"]
<1>1. /\ f \in FdType /\ f.instance_id = fd.instance_id
      /\ f.state = fd.state /\ f.req = fd.req /\ f.complete = fd.complete
      /\ f.offset = fd.offset /\ f.update_comp = fd.update_comp
  BY TouchT1Quiet
<1> HIDE DEF f
<1>2. ASSUME fd' = f PROVE Quiet(fd, fd')
  BY <1>1, <1>2 DEF Quiet, Asking
<1>3. ASSUME fd'.instance_id = fd.instance_id, fd'.req # "SENT"
      PROVE  Quiet(fd, fd')
  BY <1>3 DEF Quiet, Asking
<1>4. CASE FwdataResp(cc, len, res)
  <2>1. \/ fd' = f
        \/ fd'.instance_id = f.instance_id /\ fd'.req = "READY"
    BY <1>1, <1>4 DEF FwdataResp, f, FdType
  <2>2. QED
    BY <1>1, <1>2, <1>3, <2>1
<1>5. CASE TransferCompleteResp \/ VerifyCompleteResp \/ ApplyCompleteResp
  <2>1. \/ fd' = f
        \/ fd' = [f EXCEPT !.req = "FAILED"]
        \/ \E s \in {"VERIFY", "APPLY"} : fd' = SetState(next, s)
        \/ fd' = SetState(done, "READY_XFER")
    BY <1>5 DEF TransferCompleteResp, VerifyCompleteResp, ApplyCompleteResp, f
  <2>2. ASSUME fd' = [f EXCEPT !.req = "FAILED"]
        PROVE  fd'.instance_id = f.instance_id /\ fd'.req = "FAILED"
    BY <1>1, <2>2 DEF FdType
  <2>3. /\ next \in FdType /\ next.instance_id = f.instance_id /\ next.req = "READY"
        /\ done \in FdType /\ done.instance_id = f.instance_id /\ done.req = "UNUSED"
    BY <1>1 DEF FdType, ReqStates
  <2> HIDE DEF next, done
  <2>4. ASSUME NEW s \in {"VERIFY", "APPLY"}, fd' = SetState(next, s)
        PROVE  fd'.instance_id = f.instance_id /\ fd'.req = "READY"
    BY <2>3, <2>4, SetStateInstance DEF States
  <2>5. ASSUME fd' = SetState(done, "READY_XFER")
        PROVE  fd'.instance_id = f.instance_id /\ fd'.req = "UNUSED"
    BY <2>3, <2>5, SetStateInstance DEF States
  <2>6. QED
    BY <1>1, <1>2, <1>3, <2>1, <2>2, <2>4, <2>5
<1>6. QED
  BY <1>4, <1>5 DEF HandleResp

\* The passing of time is quiet.
LEMMA ElapseQuiet ==
    ASSUME NEW f \in FdType, NEW d
    PROVE  Quiet(f, Elapse(f, d))
BY DEF Elapse, Quiet, Asking, FdType

\* What the T1 check of pldm_fd_progress does to the instance ID and the question.
LEMMA T1CheckQuiet ==
    ASSUME NEW f \in FdType, NEW a, T1Check(f, a)
    PROVE  /\ fd'.instance_id = f.instance_id
           /\ fd' = f \/ fd'.state = "IDLE"
BY DEF T1Check, IdleTimeout, SetIdle, FdType

\* The next instance ID is taken, and a request that goes out has its command.
Takes(encoded) ==
    /\ fd'.instance_id = (fd.instance_id + 1) % INSTANCE_ID_COUNT
    /\ encoded /\ fd'.state # "IDLE" => fd'.command \in Commands

\* A request takes the next instance ID, whether it is sent or not.
LEMMA SendInstance ==
    ASSUME NEW f \in FdType, NEW a, NEW command \in Commands, NEW encoded \in BOOLEAN,
           SendThenT1Check(f, a, command, encoded)
    PROVE  /\ fd'.instance_id = (f.instance_id + 1) % INSTANCE_ID_COUNT
           /\ encoded /\ fd'.state # "IDLE" => fd'.command \in Commands
<1> DEFINE g == NextInstance(f)
           h == SendReq(g, command)
<1>1. /\ (f.instance_id + 1) % INSTANCE_ID_COUNT \in 0 .. (INSTANCE_ID_COUNT - 1)
      /\ 0 \in 0 .. MaxAge /\ "SENT" \in ReqStates
  BY SizesAssumption, TimesAssumption
     DEF SizesAssumption, TimesAssumption, FdType, ReqStates
<1>2. /\ g \in FdType
      /\ g.instance_id = (f.instance_id + 1) % INSTANCE_ID_COUNT
  BY <1>1 DEF NextInstance, FdType
<1> HIDE DEF g
<1>3. h \in FdType /\ h.instance_id = g.instance_id /\ h.command = command
  BY <1>1, <1>2 DEF SendReq, FdType
<1> HIDE DEF h
<1>4. IF encoded THEN T1Check(h, a) ELSE T1Check(g, a)
  BY DEF SendThenT1Check, g, h
<1>5. QED
  BY <1>2, <1>3, <1>4, T1CheckQuiet

\* pldm_fd_progress is quiet or takes the next instance ID.
LEMMA ProgressInstance ==
    ASSUME Good(fd, app), NEW encoded \in BOOLEAN, NEW pending \in BOOLEAN,
           NEW results \in SUBSET CallbackResults,
           UpdateProgress(encoded, pending, results)
    PROVE  \/ Quiet(fd, fd')
           \/ Takes(encoded)
<1>1. PICK delay \in Delays :
          \/ ProgressDownload(delay, encoded)
          \/ \E res \in results :
                \/ ProgressVerify(res, pending, delay, encoded)
                \/ ProgressApply(res, pending, delay, encoded)
          \/ ProgressOther(delay)
  BY DEF UpdateProgress
<1>2. delay \in Nat
  BY TimesAssumption DEF TimesAssumption
<1> DEFINE f == Elapse(fd, delay)
<1>3. /\ f \in FdType /\ Quiet(fd, f) /\ f.instance_id = fd.instance_id
      /\ Good(f, app) /\ f.state = fd.state
  <2>1. Good(f, app) /\ SameUpdate(fd, f)
    BY <1>2, ElapseGood
  <2>2. fd \in FdType
    BY DEF Good
  <2>3. Quiet(fd, f)
    BY <1>2, <2>2, ElapseQuiet
  <2> HIDE DEF f
  <2>4. f \in FdType
    BY <2>1 DEF Good
  <2>5. f.state = fd.state
    BY <2>1 DEF SameUpdate
  <2>6. QED
    BY <2>1, <2>3, <2>4, <2>5 DEF Quiet
<1> HIDE DEF f
<1>4. ASSUME NEW a, T1Check(f, a) PROVE Quiet(fd, fd')
  BY <1>3, <1>4, T1CheckQuiet DEF Quiet, Asking
<1>5. ASSUME NEW g \in FdType, g.instance_id = f.instance_id, NEW a,
             NEW command \in Commands, SendThenT1Check(g, a, command, encoded)
      PROVE  Takes(encoded)
  BY <1>3, <1>5, SendInstance DEF Takes
<1>6. ASSUME NEW r \in Results
      PROVE  LET g == [f EXCEPT !.complete = TRUE, !.result = r]
             IN  g \in FdType /\ g.instance_id = f.instance_id
  BY <1>3 DEF FdType
<1>7. CASE ProgressDownload(delay, encoded)
  BY <1>3, <1>4, <1>5, <1>7 DEF ProgressDownload, f, Commands
<1>8. ASSUME NEW res \in results, ProgressVerify(res, pending, delay, encoded)
      PROVE  \/ Quiet(fd, fd')
             \/ Takes(encoded)
  <2> DEFINE r == IF pending THEN "VENDOR_RESULT_RANGE_MAX" ELSE res
             g == [f EXCEPT !.complete = TRUE, !.result = r]
             b == CbVerify(app, fd.update_comp, res, pending)
  <2>1. r \in Results
    BY DEF Results
  <2>2. g \in FdType /\ g.instance_id = f.instance_id
    BY <1>6, <2>1
  <2>3. \/ T1Check(f, app) \/ T1Check(f, b)
        \/ SendThenT1Check(f, app, "VERIFY_COMPLETE", encoded)
        \/ SendThenT1Check(g, b, "VERIFY_COMPLETE", encoded)
    BY <1>8 DEF ProgressVerify, f
  <2> HIDE DEF g, b, r
  <2>4. QED
    BY <1>3, <1>4, <1>5, <2>2, <2>3 DEF Commands
<1>9. ASSUME NEW res \in results, ProgressApply(res, pending, delay, encoded)
      PROVE  \/ Quiet(fd, fd')
             \/ Takes(encoded)
  <2> DEFINE r == ApplyResult(res, pending)
             g == [f EXCEPT !.complete = TRUE, !.result = r]
             b == CbApply(app, fd.update_comp, res, pending)
  <2>1. r \in Results
    BY DEF Results, CallbackResults, ApplyResult
  <2>2. g \in FdType /\ g.instance_id = f.instance_id
    BY <1>6, <2>1
  <2>3. \/ T1Check(f, app) \/ T1Check(f, b)
        \/ SendThenT1Check(f, app, "APPLY_COMPLETE", encoded)
        \/ SendThenT1Check(g, b, "APPLY_COMPLETE", encoded)
    BY <1>9 DEF ProgressApply, f
  <2> HIDE DEF g, b, r
  <2>4. QED
    BY <1>3, <1>4, <1>5, <2>2, <2>3 DEF Commands
<1>10. CASE ProgressOther(delay)
  BY <1>4, <1>10 DEF ProgressOther, f
<1>11. QED
  BY <1>1, <1>7, <1>8, <1>9, <1>10

-----------------------------------------------------------------------------
(* Instance IDs on a circle *)

\* The next instance ID, without the remainder.
LEMMA NextOnCircle ==
    ASSUME NEW i \in 0 .. (INSTANCE_ID_COUNT - 1)
    PROVE  (i + 1) % INSTANCE_ID_COUNT =
              IF i + 1 = INSTANCE_ID_COUNT THEN 0 ELSE i + 1
<1>1. INSTANCE_ID_COUNT \in Nat /\ INSTANCE_ID_COUNT > 0
  BY SizesAssumption DEF SizesAssumption
<1>2. CASE i + 1 = INSTANCE_ID_COUNT
  BY <1>1, <1>2
<1>3. CASE i + 1 < INSTANCE_ID_COUNT
  BY <1>1, <1>3
<1>4. QED
  BY <1>1, <1>2, <1>3

\* A message that is one request older keeps its place on the circle.
LEMMA OlderOnCircle ==
    ASSUME NEW i \in 0 .. (INSTANCE_ID_COUNT - 1), NEW age \in Nat, age < Lifetime
    PROVE  InstanceBefore((i + 1) % INSTANCE_ID_COUNT, age + 1) = InstanceBefore(i, age)
<1>1. INSTANCE_ID_COUNT \in Nat /\ Lifetime \in Nat /\ Lifetime < INSTANCE_ID_COUNT
  BY LifetimeAssumption, SizesAssumption DEF LifetimeAssumption, SizesAssumption
<1>2. (i + 1) % INSTANCE_ID_COUNT = IF i + 1 = INSTANCE_ID_COUNT THEN 0 ELSE i + 1
  BY NextOnCircle
<1> DEFINE j == (i + 1) % INSTANCE_ID_COUNT
<1> HIDE DEF j
<1>3. j = IF i + 1 = INSTANCE_ID_COUNT THEN 0 ELSE i + 1
  BY <1>2 DEF j
<1>4. InstanceBefore(j, age + 1) = InstanceBefore(i, age)
  BY <1>1, <1>3 DEF InstanceBefore
<1>5. QED
  BY <1>4 DEF j

\* Within a lifetime an instance ID is that of the newest request only if the
\* message is the newest request.
LEMMA SameIdIsNewest ==
    ASSUME NEW i \in 0 .. (INSTANCE_ID_COUNT - 1), NEW age \in 0 .. Lifetime,
           InstanceBefore(i, age) = i
    PROVE  age = 0
<1>1. INSTANCE_ID_COUNT \in Nat /\ Lifetime \in Nat /\ Lifetime < INSTANCE_ID_COUNT
  BY LifetimeAssumption, SizesAssumption DEF LifetimeAssumption, SizesAssumption
<1>2. QED
  BY <1>1 DEF InstanceBefore

-----------------------------------------------------------------------------
(* The theorem *)

\* What UpdateIInv says of each message.
Placed(m, f) ==
    /\ m.iid = InstanceBefore(f.instance_id, m.age)
    /\ m.age = 0 /\ Asking(f) => m.offset = f.offset /\ m.comp = f.update_comp

\* UpdateIInv in terms of Good and Placed.
LEMMA UpdateIInvIs ==
    /\ UpdateIInv <=> /\ Good(fd, app) /\ recent \subseteq MessageType /\ ~misplaced
                      /\ \A m \in recent : Placed(m, fd)
    /\ UpdateIInv' <=> /\ Good(fd', app') /\ recent' \subseteq MessageType /\ ~misplaced'
                       /\ \A m \in recent' : Placed(m, fd')
<1>1. UpdateIInv <=> /\ Good(fd, app) /\ recent \subseteq MessageType /\ ~misplaced
                     /\ \A m \in recent : Placed(m, fd)
  BY GoodIsIInv DEF UpdateIInv, Placed, Asking
<1>2. UpdateIInv' <=> /\ Good(fd', app') /\ recent' \subseteq MessageType /\ ~misplaced'
                      /\ \A m \in recent' : Placed(m, fd')
  BY GoodIsIInv DEF UpdateIInv, Placed, Asking
<1>3. QED
  BY <1>1, <1>2

\* A quiet step leaves every message in its place.
LEMMA QuietPlaced ==
    ASSUME NEW f, NEW g, Quiet(f, g), NEW m, Placed(m, f)
    PROVE  Placed(m, g)
BY DEF Quiet, Placed

\* The request that has just been sent is in its place.
LEMMA NewPlaced ==
    ASSUME NEW f \in FdType, f.command \in Commands
    PROVE  RequestMessage(f) \in MessageType /\ Placed(RequestMessage(f), f)
<1> DEFINE m == RequestMessage(f)
<1>1. /\ f.instance_id \in 0 .. (INSTANCE_ID_COUNT - 1) /\ f.update_comp \in CompType
      /\ f.offset \in Nat /\ f.max_transfer \in Nat
  BY DEF FdType
<1>2. f.update_comp.size \in Nat
  BY <1>1, CompSize
<1>3. FwdataSize(f) \in Int
  BY <1>1, <1>2 DEF FwdataSize
<1>4. 0 \in 0 .. Lifetime /\ INSTANCE_ID_COUNT \in Nat
  BY LifetimeAssumption, SizesAssumption DEF LifetimeAssumption, SizesAssumption
<1>5. m \in MessageType
  BY <1>1, <1>3, <1>4 DEF RequestMessage, MessageType
<1>6. InstanceBefore(f.instance_id, 0) = f.instance_id
  BY <1>1, <1>4 DEF InstanceBefore
<1>7. Placed(m, f)
  BY <1>6 DEF RequestMessage, Placed
<1>8. QED
  BY <1>5, <1>7

\* pldm_fd_progress keeps the invariant.
LEMMA UpdateProgressStep ==
    ASSUME UpdateIInv, NEW encoded \in BOOLEAN, NEW pending \in BOOLEAN,
           UpdateProgress(encoded, pending, CallbackResults)
    PROVE  UpdateIInv'
<1>1. /\ Good(fd, app) /\ recent \subseteq MessageType /\ ~misplaced
      /\ \A m \in recent : Placed(m, fd)
  BY UpdateIInvIs
<1>2. Good(fd', app')
  <2>1. Progress
    BY DEF UpdateProgress, Progress
  <2>2. QED
    BY <2>1, <1>1, NextGood, GoodIsIInv DEF Next
<1>3. ~misplaced'
  BY <1>1 DEF UpdateProgress
<1>4. CASE fd'.instance_id = fd.instance_id
  <2>1. recent' = recent
    BY <1>4 DEF UpdateProgress
  <2>2. fd.instance_id \in 0 .. (INSTANCE_ID_COUNT - 1)
    BY <1>1 DEF Good, FdType
  <2>3. INSTANCE_ID_COUNT \in Nat /\ INSTANCE_ID_COUNT > 1
    BY LifetimeAssumption, SizesAssumption DEF LifetimeAssumption, SizesAssumption
  <2>4. (fd.instance_id + 1) % INSTANCE_ID_COUNT # fd.instance_id
    BY <2>2, <2>3, NextOnCircle
  <2>5. Quiet(fd, fd')
    BY <1>1, <1>4, <2>4, ProgressInstance DEF Takes
  <2>6. QED
    BY <1>1, <1>2, <1>3, <2>1, <2>5, QuietPlaced, UpdateIInvIs
<1>5. CASE fd'.instance_id # fd.instance_id
  <2>1. Takes(encoded)
    BY <1>1, <1>5, ProgressInstance DEF Quiet
  <2>2. recent' \subseteq Older(recent) \cup
           (IF encoded /\ fd'.state # "IDLE" THEN {RequestMessage(fd')} ELSE {})
    BY <1>5 DEF UpdateProgress
  <2>3. ASSUME NEW n \in Older(recent)
        PROVE  n \in MessageType /\ Placed(n, fd')
    <3>1. PICK m \in recent : m.age < Lifetime /\ n = [m EXCEPT !.age = @ + 1]
      BY <2>3 DEF Older
    <3>2. m \in MessageType /\ m.age \in 0 .. Lifetime /\ Placed(m, fd)
      BY <1>1 DEF MessageType
    <3>3. Lifetime \in Nat
      BY LifetimeAssumption DEF LifetimeAssumption
    <3>4. m.age + 1 \in 0 .. Lifetime /\ m.age \in Nat
      BY <3>1, <3>2, <3>3
    <3>5. n \in MessageType /\ n.iid = m.iid /\ n.age = m.age + 1
      BY <3>1, <3>2, <3>4 DEF MessageType
    <3>6. n.age # 0
      BY <3>4, <3>5
    <3>7. n.iid = InstanceBefore(fd'.instance_id, n.age)
      <4>1. fd.instance_id \in 0 .. (INSTANCE_ID_COUNT - 1)
        BY <1>1 DEF Good, FdType
      <4>2. InstanceBefore(fd'.instance_id, m.age + 1)
              = InstanceBefore(fd.instance_id, m.age)
        BY <2>1, <3>1, <3>4, <4>1, OlderOnCircle DEF Takes
      <4>3. QED
        BY <3>2, <3>5, <4>2 DEF Placed
    <3>8. QED
      BY <3>5, <3>6, <3>7 DEF Placed
  <2>4. ASSUME encoded, fd'.state # "IDLE"
        PROVE  RequestMessage(fd') \in MessageType /\ Placed(RequestMessage(fd'), fd')
    BY <1>2, <2>1, <2>4, NewPlaced DEF Takes, Good
  <2>5. ASSUME NEW n \in recent' PROVE n \in MessageType /\ Placed(n, fd')
    BY <2>2, <2>3, <2>4
  <2>6. QED
    BY <1>2, <1>3, <2>5, UpdateIInvIs
<1>6. QED
  BY <1>4, <1>5

\* An answer that is given to the application is the answer to the newest request,
\* and that request asked for the bytes the application waits for.
LEMMA DeliverStep ==
    ASSUME UpdateIInv, NEW m \in recent, NEW cc, NEW res \in CallbackResults,
           Deliver(m, cc, res)
    PROVE  UpdateIInv'
<1>1. /\ Good(fd, app) /\ recent \subseteq MessageType /\ ~misplaced
      /\ \A n \in recent : Placed(n, fd)
  BY UpdateIInvIs
<1> DEFINE len == ResponseLength(m, cc)
<1> HIDE DEF len
<1>2. /\ \E tid \in TIDs : MatchesRequest(tid, m.iid, m.command)
      /\ HandleResp(cc, len, res)
  BY DEF Deliver, len
<1>3. Good(fd', app')
  BY <1>1, <1>2, FwdataRespStep, TransferCompleteRespStep, VerifyCompleteRespStep,
     ApplyCompleteRespStep DEF HandleResp, MatchesRequest
<1>4. Quiet(fd, fd')
  BY <1>1, <1>2, ResponseQuiet DEF Good
<1>5. recent' = recent
  BY DEF Deliver
<1>6. ~misplaced'
  <2>1. SUFFICES ASSUME app'.offset # app.offset
                 PROVE  m.offset = fd.offset /\ m.comp = fd.update_comp
    BY <1>1 DEF Deliver
  <2>2. FwdataResp(cc, len, res) /\ fd.req = "SENT" /\ fd.instance_id = m.iid
    BY <1>2, <2>1 DEF HandleResp, MatchesRequest, TransferCompleteResp,
                      VerifyCompleteResp, ApplyCompleteResp
  <2>3. fd.state = "DOWNLOAD" /\ ~fd.complete
    BY <2>1, <2>2 DEF FwdataResp
  <2>4. /\ m \in MessageType /\ m.age \in 0 .. Lifetime
        /\ fd.instance_id \in 0 .. (INSTANCE_ID_COUNT - 1)
        /\ Placed(m, fd)
    BY <1>1 DEF MessageType, Good, FdType
  <2>5. m.age = 0
    BY <2>2, <2>4, SameIdIsNewest DEF Placed
  <2>6. QED
    BY <2>2, <2>3, <2>4, <2>5 DEF Placed, Asking
<1>7. QED
  BY <1>1, <1>3, <1>4, <1>5, <1>6, QuietPlaced, UpdateIInvIs

\* Every step of the composition keeps the invariant.
LEMMA UpdateNextStep == UpdateIInv /\ [UpdateNext]_updateVars => UpdateIInv'
<1> SUFFICES ASSUME UpdateIInv, [UpdateNext]_updateVars PROVE UpdateIInv'
  OBVIOUS
<1>1. /\ Good(fd, app) /\ recent \subseteq MessageType /\ ~misplaced
      /\ \A m \in recent : Placed(m, fd)
  BY UpdateIInvIs
<1>2. CASE UpdateRequest
  <2>1. Good(fd', app')
    BY <1>1, <1>2, NextGood, GoodIsIInv DEF UpdateRequest, Next
  <2>2. Quiet(fd, fd') /\ UNCHANGED <<recent, misplaced>>
    BY <1>1, <1>2, RequestQuiet DEF UpdateRequest, Good
  <2>3. QED
    BY <1>1, <2>1, <2>2, QuietPlaced, UpdateIInvIs
<1>3. CASE UpdateTick
  <2>1. Good(fd', app')
    BY <1>1, <1>3, NextGood, GoodIsIInv DEF UpdateTick, Next
  <2>2. Quiet(fd, fd') /\ UNCHANGED <<recent, misplaced>>
    BY <1>1, <1>3, ElapseQuiet DEF UpdateTick, Tick, Good
  <2>3. QED
    BY <1>1, <2>1, <2>2, QuietPlaced, UpdateIInvIs
<1>4. CASE \E encoded, pending \in BOOLEAN :
              UpdateProgress(encoded, pending, CallbackResults)
  BY <1>4, UpdateProgressStep
<1>5. CASE \E m \in recent, cc \in {"SUCCESS", "RETRY_REQUEST_FW_DATA", "ERROR"},
              res \in CallbackResults : Deliver(m, cc, res)
  BY <1>5, DeliverStep
<1>6. CASE \E m \in recent : Lose(m)
  <2>1. recent' \subseteq recent /\ UNCHANGED <<fd, app, misplaced>>
    BY <1>6 DEF Lose
  <2>2. QED
    BY <1>1, <2>1, UpdateIInvIs
<1>7. CASE UNCHANGED updateVars
  BY <1>1, <1>7, UpdateIInvIs DEF updateVars
<1>8. QED
  BY <1>2, <1>3, <1>4, <1>5, <1>6, <1>7 DEF UpdateNext

\* For any number of instance IDs, and answers late by any number of requests
\* smaller than that, data asked for at another offset or for another component
\* are never given to the application.
THEOREM DataInPlace == UpdateSpec => []NoMisplacedData
<1>1. UpdateInit => UpdateIInv
  <2> SUFFICES ASSUME UpdateInit PROVE UpdateIInv
    OBVIOUS
  <2>1. Good(fd, app) /\ recent = {} /\ misplaced = FALSE
    BY InitGood DEF UpdateInit
  <2>2. QED
    BY <2>1, UpdateIInvIs
<1>2. UpdateIInv => NoMisplacedData
  BY DEF UpdateIInv, NoMisplacedData
<1>3. QED
  BY <1>1, <1>2, UpdateNextStep, PTL DEF UpdateSpec
=============================================================================
