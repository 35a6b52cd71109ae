--------------------------- MODULE AuthzPolicyProofs ---------------------------
(***************************************************************************)
(* Proofs about AuthzPolicy, for any callers, tools and policies and any    *)
(* number of edits: whatever order concurrent reloads install their results *)
(* in, the server decides by whole policies only, and never by one older    *)
(* than the file was when the call came in.                                 *)
(***************************************************************************)
EXTENDS AuthzPolicy, TLAPS

PolicyTypes == policy \in LivePolicies
CallTypes ==
  /\ pc \in [Callers -> {"idle", "stat", "read", "install", "decide"}]
  /\ cached \in [Callers -> LivePolicies]
  /\ seen \in [Callers -> Int]
  /\ cfg \in [Callers -> Configs]
  /\ due \in [Callers -> 0 .. MaxEdits + 1]
FileTypes ==
  /\ written \in Seq(Documents) /\ Len(written) \in 1 .. MaxEdits + 1
  /\ mtime \in Int

(* What the file holds, when it parses, is a config. *)
LEMMA ContentsTyped ==
  ASSUME FileTypes, written[Latest] \in Policies
  PROVE  Contents \in Configs /\ Contents.edit = Latest
BY DEF FileTypes, Contents, Configs, Latest

LEMMA DenyAllTyped == DenyAll \in LivePolicies /\ NoConfig \in Configs
BY DEF DenyAll, LivePolicies, NoConfig, Configs

LEMMA InitTypeOK == Init => TypeOK
<1> SUFFICES ASSUME Init PROVE TypeOK
  OBVIOUS
<1>1. written \in Seq(Documents) /\ Len(written) \in 1 .. MaxEdits + 1
  BY EditsAssumption DEF Init
<1> QED
  BY <1>1, DenyAllTyped, EditsAssumption DEF Init, TypeOK

LEMMA NextTypeOK == TypeOK /\ [Next]_vars => TypeOK'
<1> SUFFICES ASSUME TypeOK, [Next]_vars PROVE TypeOK'
  OBVIOUS
<1>0. FileTypes /\ DenyAll \in LivePolicies /\ NoConfig \in Configs
  BY DenyAllTyped DEF TypeOK, FileTypes
<1>1. CASE UNCHANGED vars
  BY <1>1 DEF vars, file, process, calls, TypeOK
<1>2. CASE ReadAtStart
  <2>1. written[Latest] \in Policies => Live(Contents, 0) \in LivePolicies
    BY <1>0, ContentsTyped DEF Live, LivePolicies
  <2> QED
    BY <1>0, <1>2, <2>1 DEF TypeOK, ReadAtStart, Refuse, file, calls
<1>3. CASE StatAtStart
  <2>1. [policy EXCEPT !.mtime = mtime] \in LivePolicies
    BY DEF TypeOK, LivePolicies
  <2> QED
    BY <1>0, <1>3, <2>1 DEF TypeOK, StatAtStart, Refuse, file, calls
<1>4. ASSUME NEW c \in Callers, Current(c)
      PROVE  TypeOK'
  <2>0. cached[c].config \in Configs
    BY DEF TypeOK, LivePolicies
  <2>1. CASE SkipReload(c)
    BY <2>0, <2>1 DEF TypeOK, SkipReload, UseCached, file, process
  <2>2. CASE StatPolicy(c)
    BY <2>0, <2>2 DEF TypeOK, StatPolicy, UseCached, file, process
  <2>3. CASE ReadPolicy(c)
    BY <1>0, <2>0, <2>3, ContentsTyped DEF TypeOK, ReadPolicy, UseCached, file, process
  <2>4. CASE InstallPolicy(c)
    <3>1. Live(cfg[c], seen[c]) \in LivePolicies
      BY DEF TypeOK, Live, LivePolicies
    <3> QED
      BY <2>4, <3>1 DEF TypeOK, InstallPolicy, file, process
  <2>5. CASE Decide(c)
    BY <1>0, <2>5, EditsAssumption DEF TypeOK, Decide, file, process
  <2> QED
    BY <1>4, <2>1, <2>2, <2>3, <2>4, <2>5 DEF Current
<1>5. ASSUME NEW c \in Callers, NEW t \in Tools, Evaluate(c, t)
      PROVE  TypeOK'
  <2>1. Latest \in 0 .. MaxEdits + 1 /\ 0 \in 0 .. MaxEdits + 1
    BY EditsAssumption DEF TypeOK, Latest
  <2> QED
    BY <1>5, <2>1 DEF TypeOK, Evaluate, file, process
<1>6. ASSUME NEW doc \in Documents, Edit(doc)
      PROVE  TypeOK'
  <2>1. written' \in Seq(Documents) /\ Len(written') \in 1 .. MaxEdits + 1
    BY <1>6, EditsAssumption DEF TypeOK, Edit, Latest
  <2>2. mtime' \in Int
    BY <1>6, StepsAssumption DEF TypeOK, Edit
  <2>3. due' \in [Callers -> 0 .. MaxEdits + 1]
    BY <1>6, EditsAssumption DEF TypeOK, Edit
  <2> QED
    BY <1>6, <2>1, <2>2, <2>3 DEF TypeOK, Edit, process
<1>7. CASE Restart
  BY <1>0, <1>7, EditsAssumption DEF TypeOK, Restart, file
<1> QED
  BY <1>1, <1>2, <1>3, <1>4, <1>5, <1>6, <1>7 DEF Next, Load

(* Every variable keeps its type: no caller ever decides on Missing. *)
THEOREM TypeCorrect == Spec => []TypeOK
BY InitTypeOK, NextTypeOK, PTL DEF Spec

-----------------------------------------------------------------------------
(* Reload keeps the last good policy.                                        *)

(* Where a config comes from. An edit only appends, so it stays there. *)
FromTheFile(config) ==
  \/ config = NoConfig
  \/ /\ config.doc \in Policies /\ config.doc = written[config.edit]
     /\ config.edit \in 1 .. Latest

Origins ==
  /\ FromTheFile(policy.config)
  /\ \A c \in Callers : FromTheFile(cfg[c]) /\ FromTheFile(cached[c].config)

LEMMA ContentsFromTheFile ==
  ASSUME FileTypes, written[Latest] \in Policies
  PROVE  FromTheFile(Contents)
BY DEF FileTypes, Contents, FromTheFile, Latest

LEMMA InitOrigins == Init => Origins
BY DEF Init, Origins, FromTheFile, DenyAll

LEMMA NextOrigins == TypeOK /\ Origins /\ [Next]_vars => Origins'
<1> SUFFICES ASSUME TypeOK, Origins, [Next]_vars PROVE Origins'
  OBVIOUS
<1>0. FileTypes
  BY DEF TypeOK, FileTypes
<1>1. CASE UNCHANGED vars
  BY <1>1 DEF vars, file, calls, Origins, FromTheFile, Latest
<1>2. CASE Load
  <2>1. written[Latest] \in Policies => FromTheFile(Contents)
    BY <1>0, ContentsFromTheFile
  <2>2. FromTheFile(NoConfig)
    BY DEF FromTheFile
  <2>3. FromTheFile(policy'.config)
    <3>1. CASE ReadAtStart
      BY <2>1, <2>2, <3>1 DEF ReadAtStart, Refuse, Live, DenyAll
    <3>2. CASE StatAtStart
      <4>1. [policy EXCEPT !.mtime = mtime].config = policy.config
        BY DEF TypeOK, LivePolicies
      <4>2. DenyAll.config = NoConfig
        BY DEF DenyAll
      <4>3. policy' = [policy EXCEPT !.mtime = mtime] \/ policy' = DenyAll
        BY <3>2 DEF StatAtStart, Refuse
      <4> QED
        BY <2>2, <4>1, <4>2, <4>3 DEF Origins
    <3> QED
      BY <1>2, <3>1, <3>2 DEF Load
  <2> QED
    BY <1>2, <2>3 DEF Load, ReadAtStart, StatAtStart, file, calls, Origins, FromTheFile, Latest
<1>3. ASSUME NEW c \in Callers, Current(c)
      PROVE  Origins'
  <2>1. UNCHANGED written
    BY <1>3 DEF Current, SkipReload, StatPolicy, ReadPolicy, InstallPolicy, Decide, file
  <2>2. \A k : FromTheFile(k) <=> FromTheFile(k)'
    BY <2>1 DEF FromTheFile, Latest
  <2>3. FromTheFile(NoConfig) /\ (written[Latest] \in Policies => FromTheFile(Contents))
    BY <1>0, ContentsFromTheFile DEF FromTheFile
  <2>4. \A d \in Callers : FromTheFile(cfg'[d])
    BY <1>3, <2>3 DEF Current, SkipReload, StatPolicy, ReadPolicy, InstallPolicy, Decide, UseCached, Origins, TypeOK
  <2>5. \A d \in Callers : FromTheFile(cached'[d].config)
    BY <1>3, <2>3 DEF Current, SkipReload, StatPolicy, ReadPolicy, InstallPolicy, Decide, DenyAll, Origins, TypeOK
  <2>6. FromTheFile(policy'.config)
    BY <1>3 DEF Current, SkipReload, StatPolicy, ReadPolicy, InstallPolicy, Decide, Live, Origins
  <2> QED
    BY <2>1, <2>2, <2>4, <2>5, <2>6 DEF Origins, FromTheFile, Latest
<1>4. ASSUME NEW c \in Callers, NEW t \in Tools, Evaluate(c, t)
      PROVE  Origins'
  <2>1. \A d \in Callers : cached'[d] = cached[d] \/ cached'[d] = policy
    BY <1>4 DEF Evaluate, TypeOK
  <2> QED
    BY <1>4, <2>1 DEF Evaluate, Origins, FromTheFile, Latest, file
<1>5. ASSUME NEW doc \in Documents, Edit(doc)
      PROVE  Origins'
  <2>1. /\ Len(written') = Latest + 1
        /\ \A i \in 1 .. Latest : written'[i] = written[i]
    BY <1>5 DEF Edit, TypeOK, Latest
  <2>2. \A k : FromTheFile(k) => \/ k = NoConfig
                                 \/ /\ k.doc \in Policies /\ k.doc = written'[k.edit]
                                    /\ k.edit \in 1 .. Len(written')
    BY <2>1 DEF FromTheFile, TypeOK, Latest
  <2> QED
    BY <1>5, <2>2 DEF Edit, Origins, FromTheFile, Latest
<1>6. CASE Restart
  BY <1>6 DEF Restart, Origins, FromTheFile, DenyAll, TypeOK
<1> QED
  BY <1>1, <1>2, <1>3, <1>4, <1>5, <1>6 DEF Next

(* Whatever is edited, and whatever order concurrent reloads install their   *)
(* results in, the server decides by a whole policy the file held, or denies *)
(* all: never by a document that does not parse.                              *)
THEOREM LastGoodKept == Spec => []LastGoodPolicy
<1>1. Origins => LastGoodPolicy
  BY DEF Origins, FromTheFile, LastGoodPolicy
<1> QED
  BY <1>1, InitTypeOK, NextTypeOK, InitOrigins, NextOrigins, PTL DEF Spec

-----------------------------------------------------------------------------
(* Decisions follow the file, provided edits fall outside the start and each *)
(* moves the modification time forward. An edit between the read and the     *)
(* stat of the first load would be stamped as loaded without having been.    *)

OrderedEdits == ~EditsDuringStart /\ MtimeSteps \subseteq Nat \ {0}

(* A live policy stamped with the file's time is what the file says; one     *)
(* stamped earlier will be reloaded. None is stamped with the future.        *)
UpToDate(live) ==
  live.path => /\ live.mtime <= mtime
               /\ live.mtime = mtime => live.config.edit = Latest

(* The same of what a caller is about to install. *)
Installable(c) ==
  /\ pc[c] \in {"read", "install"} => cached[c].path /\ seen[c] <= mtime
  /\ pc[c] = "install" /\ seen[c] = mtime => cfg[c].edit = Latest

(* What each decision is due was met when the file was read, or is met by    *)
(* the cached policy the file's time speaks for.                             *)
Dues(c) ==
  /\ due[c] <= Latest
  /\ written[Latest] \notin Policies => due[c] = 0
  /\ pc[c] = "idle" => due[c] = 0
  /\ pc[c] = "stat" /\ ~cached[c].path => due[c] = 0
  /\ pc[c] \in {"install", "decide"} => cfg[c].edit >= due[c]

CallInv(c) ==
  /\ pc[c] # "idle" => server = "ready"
  /\ pc[c] = "stat" => UpToDate(cached[c])
  /\ Installable(c)
  /\ Dues(c)

FollowInv ==
  /\ server = "stat" => policy.path /\ policy.config.edit = Latest
  /\ server = "ready" => UpToDate(policy)
  /\ \A c \in Callers : CallInv(c)

LEMMA InitFollowInv == Init => FollowInv
BY EditsAssumption DEF Init, FollowInv, CallInv, Installable, Dues, Latest, DenyAll, NoConfig

(* A step of one caller that leaves the server and the file alone. *)
LEMMA OneCallerFollowInv ==
  ASSUME TypeOK, FollowInv, NEW c \in Callers, UNCHANGED <<file, process>>,
         server = "ready", UpToDate(policy)', CallInv(c)',
         \A d \in Callers \ {c} :
           /\ pc'[d] = pc[d] /\ cached'[d] = cached[d] /\ seen'[d] = seen[d]
           /\ cfg'[d] = cfg[d] /\ due'[d] = due[d]
  PROVE  FollowInv'
<1>1. ASSUME NEW d \in Callers \ {c}
      PROVE  CallInv(d)'
  BY <1>1 DEF FollowInv, CallInv, UpToDate, Installable, Dues, Latest, file, process
<1> QED
  BY <1>1 DEF FollowInv, process

LEMMA NextFollowInv ==
  ASSUME OrderedEdits
  PROVE  TypeOK /\ FollowInv /\ [Next]_vars => FollowInv'
<1> SUFFICES ASSUME TypeOK, FollowInv, [Next]_vars PROVE FollowInv'
  OBVIOUS
<1> USE DEF CallInv, UpToDate, Installable, Dues, Latest
<1>1. CASE UNCHANGED vars
  BY <1>1 DEF vars, file, process, calls, FollowInv
<1>2. CASE ReadAtStart
  BY <1>2 DEF TypeOK, ReadAtStart, Refuse, Live, DenyAll, Contents, file, calls, FollowInv
<1>3. CASE StatAtStart
  <2>1. LET stamped == [policy EXCEPT !.mtime = mtime]
        IN  stamped.config = policy.config /\ stamped.mtime = mtime /\ stamped.path = policy.path
    BY DEF TypeOK, LivePolicies
  <2>2. server' = "ready" /\ UpToDate(policy)'
    <3>1. server' = "ready" /\ UNCHANGED <<written, mtime>>
      BY <1>3 DEF StatAtStart, Refuse, file
    <3>2. CASE policy' = DenyAll
      BY <3>1, <3>2 DEF DenyAll
    <3>3. CASE policy' = [policy EXCEPT !.mtime = mtime]
      BY <1>3, <2>1, <3>1, <3>3 DEF StatAtStart, TypeOK, FollowInv
    <3> QED
      BY <1>3, <3>1, <3>2, <3>3 DEF StatAtStart, Refuse
  <2>3. ASSUME NEW d \in Callers
        PROVE  CallInv(d)'
    BY <1>3 DEF StatAtStart, file, calls, FollowInv
  <2> QED
    BY <2>2, <2>3 DEF FollowInv
<1>4. ASSUME NEW c \in Callers, Current(c)
      PROVE  FollowInv'
  <2>1. server = "ready" /\ UNCHANGED <<file, process>>
    BY <1>4 DEF Current, SkipReload, StatPolicy, ReadPolicy, InstallPolicy, Decide, FollowInv
  <2>2. \A d \in Callers \ {c} :
          /\ pc'[d] = pc[d] /\ cached'[d] = cached[d] /\ seen'[d] = seen[d]
          /\ cfg'[d] = cfg[d] /\ due'[d] = due[d]
    BY <1>4 DEF TypeOK, Current, SkipReload, StatPolicy, ReadPolicy, InstallPolicy, Decide, UseCached
  <2>3. cached[c].config.edit >= 0
    BY DEF TypeOK, LivePolicies, Configs, NoConfig
  <2>4. CASE SkipReload(c)
    <3>1. CallInv(c)'
      BY <2>3, <2>4 DEF TypeOK, SkipReload, UseCached, file, process, FollowInv
    <3>2. UpToDate(policy)'
      BY <2>1, <2>4 DEF SkipReload, file, FollowInv
    <3> QED
      BY <2>1, <2>2, <3>1, <3>2, OneCallerFollowInv
  <2>5. CASE StatPolicy(c)
    <3>1. CallInv(c)'
      <4>1. CASE written[Latest] # Missing /\ mtime > cached[c].mtime
        BY <2>5, <4>1 DEF TypeOK, StatPolicy, file, process, FollowInv
      <4>2. CASE ~(written[Latest] # Missing /\ mtime > cached[c].mtime)
        <5>1. due[c] <= cached[c].config.edit
          <6>1. CASE written[Latest] = Missing
            BY <2>3, <6>1, PoliciesAssumption DEF FollowInv
          <6>2. CASE written[Latest] # Missing
            BY <2>5, <4>2, <6>2 DEF TypeOK, StatPolicy, FollowInv, LivePolicies
          <6> QED
            BY <6>1, <6>2
        <5> QED
          BY <2>5, <4>2, <5>1 DEF TypeOK, StatPolicy, UseCached, file, process, FollowInv
      <4> QED
        BY <4>1, <4>2
    <3>2. UpToDate(policy)'
      BY <2>1, <2>5 DEF StatPolicy, file, FollowInv
    <3> QED
      BY <2>1, <2>2, <3>1, <3>2, OneCallerFollowInv
  <2>6. CASE ReadPolicy(c)
    <3>1. CallInv(c)'
      <4>1. CASE written[Latest] \in Policies
        BY <2>6, <4>1 DEF TypeOK, ReadPolicy, Contents, file, process, FollowInv
      <4>2. CASE written[Latest] \notin Policies
        BY <2>3, <2>6, <4>2 DEF TypeOK, ReadPolicy, UseCached, file, process, FollowInv
      <4> QED
        BY <4>1, <4>2
    <3>2. UpToDate(policy)'
      BY <2>1, <2>6 DEF ReadPolicy, file, FollowInv
    <3> QED
      BY <2>1, <2>2, <3>1, <3>2, OneCallerFollowInv
  <2>7. CASE InstallPolicy(c)
    <3>1. CallInv(c)' /\ UpToDate(policy)'
      BY <2>7 DEF TypeOK, InstallPolicy, Live, file, process, FollowInv
    <3> QED
      BY <2>1, <2>2, <3>1, OneCallerFollowInv
  <2>8. CASE Decide(c)
    <3>1. CallInv(c)' /\ UpToDate(policy)'
      BY <2>1, <2>8 DEF TypeOK, Decide, file, process, FollowInv
    <3> QED
      BY <2>1, <2>2, <3>1, OneCallerFollowInv
  <2> QED
    BY <1>4, <2>4, <2>5, <2>6, <2>7, <2>8 DEF Current
<1>5. ASSUME NEW c \in Callers, NEW t \in Tools, Evaluate(c, t)
      PROVE  FollowInv'
  BY <1>5 DEF TypeOK, Evaluate, file, process, FollowInv
<1>6. ASSUME NEW doc \in Documents, Edit(doc)
      PROVE  FollowInv'
  <2>1. server = "ready" /\ server' = "ready"
    BY <1>6 DEF Edit, OrderedEdits, process
  <2>2. mtime' > mtime
    BY <1>6 DEF Edit, OrderedEdits, TypeOK
  <2>3. Len(written') = Len(written) + 1 /\ written'[Len(written')] = doc
    BY <1>6 DEF Edit, TypeOK
  <2>4. UpToDate(policy)'
    BY <1>6, <2>1, <2>2 DEF TypeOK, Edit, FollowInv, LivePolicies
  <2>5. ASSUME NEW d \in Callers
        PROVE  CallInv(d)'
    <3>1. pc[d] = "stat" => UpToDate(cached[d])'
      BY <1>6, <2>2 DEF TypeOK, Edit, FollowInv, LivePolicies
    <3>2. Installable(d)'
      BY <1>6, <2>2 DEF TypeOK, Edit, FollowInv
    <3>3. due'[d] = 0 \/ (due'[d] = due[d] /\ doc \in Policies)
      BY <1>6 DEF TypeOK, Edit
    <3>4. cfg[d].edit >= 0
      <4>1. cfg[d] \in Configs
        BY DEF TypeOK
      <4> QED
        BY <4>1, EditsAssumption DEF Configs, NoConfig
    <3>5. Dues(d)'
      BY <1>6, <2>3, <3>3, <3>4 DEF TypeOK, Edit, FollowInv
    <3> QED
      BY <1>6, <2>1, <3>1, <3>2, <3>5 DEF Edit
  <2> QED
    BY <2>1, <2>4, <2>5 DEF FollowInv
<1>7. CASE Restart
  BY <1>7 DEF TypeOK, Restart, DenyAll, file, FollowInv
<1> QED
  BY <1>1, <1>2, <1>3, <1>4, <1>5, <1>6, <1>7 DEF Next, Load

(* The README: the policy file is re-read on change. A decision is never     *)
(* older than the file was when the call came in, though a slow reload may   *)
(* overwrite the result of a newer one.                                       *)
THEOREM DecisionsFollow == OrderedEdits => (Spec => []DecisionsFollowTheFile)
<1> SUFFICES ASSUME OrderedEdits PROVE Spec => []DecisionsFollowTheFile
  OBVIOUS
<1>1. FollowInv => DecisionsFollowTheFile
  BY DEF FollowInv, CallInv, Dues, DecisionsFollowTheFile
<1>2. TypeOK /\ FollowInv /\ [Next]_vars => FollowInv'
  BY NextFollowInv
<1> QED
  BY <1>1, <1>2, InitTypeOK, NextTypeOK, InitFollowInv, PTL DEF Spec
=============================================================================
