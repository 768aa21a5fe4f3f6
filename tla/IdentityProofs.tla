--------------------------- MODULE IdentityProofs ---------------------------
(***************************************************************************)
(* Workload identity for every set of tiers, ServiceAccounts, requesters   *)
(* and objects: type correctness, the two safety invariants, and the       *)
(* implementation of TierCapability.                                       *)
(***************************************************************************)
EXTENDS Identity, TLAPS

(***************************************************************************)
(* The inductive invariant.  NetworkIdentityVouched alone is not           *)
(* inductive: a controller may make a pod from a template written long     *)
(* before, so the ServiceAccount half (TierSAVouched) must hold of every   *)
(* object, and the label half of every pod.                                *)
(***************************************************************************)
LabelMatches ==
    \A s \in Slots :
        Live(s) /\ obj[s].kind = "pods" /\ obj[s].app \in Tiers
            /\ "shop-label-identity" \notin obj[s].lax
        => obj[s].sa = SAOf[obj[s].app]

IInv == TypeOK /\ TierSAVouched /\ LabelMatches

-----------------------------------------------------------------------------
\* The gate resolves the ServiceAccount of every kind it matches.
LEMMA EffectiveSAResolves ==
    ASSUME NEW kind \in Kinds, NEW sa
    PROVE  EffectiveSA(kind, sa) = sa
BY DEF EffectiveSA, ResolvedPaths, SpecPath

\* The workload kinds of the deployers' role are all covered by the gate.
LEMMA RoleIsGated == RoleKinds \cap Kinds \subseteq GatedKinds
BY DEF RoleKinds, Kinds, GatedKinds

\* With the gate enforced, a requester's admitted write runs under a tier
\* ServiceAccount only if the requester is trusted.
LEMMA AdmittedTierIsTrusted ==
    ASSUME NEW r \in Requesters, NEW kind \in Kinds, NEW app, NEW sa \in GatedSAs,
           NEW on, CanWrite(r, kind), Admitted(r, kind, app, sa, on),
           "shop-sa-use" \in on
    PROVE  Trusted(r)
<1>1. CASE r.groups \cap AdminGroups # {}
  BY <1>1 DEF Trusted
<1>2. CASE kind \in RoleKinds
  <2>1. SAUseOK(r, kind, sa)
    BY DEF Admitted
  <2>2. RequesterAuthorized(r)
    BY <1>2, <2>1, RoleIsGated, EffectiveSAResolves DEF SAUseOK
  <2>3. QED
    BY <2>2, IdentityAssumption DEF RequesterAuthorized, Trusted
<1>3. QED
  BY <1>1, <1>2 DEF CanWrite

\* What a requester writes is an object of the type, in slot s.
LEMMA WrittenType ==
    ASSUME NEW r \in Requesters, NEW kind \in Kinds, NEW app \in Apps,
           NEW sa \in ServiceAccts, enforcing \subseteq Policies
    PROVE  Written(r, kind, app, sa) \in Object
BY DEF Written, Object, Trusted

-----------------------------------------------------------------------------
(***************************************************************************)
(* One lemma for the writes that change obj: if the new object of one slot *)
(* satisfies the three parts, so does the whole state.                     *)
(***************************************************************************)
GoodObject(o) ==
    /\ o \in Object
    /\ o.sa \in GatedSAs => o.vouched \/ "shop-sa-use" \in o.lax
    /\ o.kind = "pods" /\ o.app \in Tiers /\ "shop-label-identity" \notin o.lax
           => o.sa = SAOf[o.app]

\* Putting a good object in a slot keeps the inductive invariant.
LEMMA PutPreserves ==
    ASSUME IInv, NEW s \in Slots, NEW o, GoodObject(o),
           obj' = [obj EXCEPT ![s] = o], UNCHANGED <<binding, enforcing>>
    PROVE  IInv'
<1>1. TypeOK'
  BY DEF IInv, TypeOK, GoodObject
<1>2. ASSUME NEW x \in Slots
      PROVE  obj'[x] = IF x = s THEN o ELSE obj[x]
  BY DEF IInv, TypeOK
<1>3. TierSAVouched'
  BY <1>2 DEF IInv, TierSAVouched, GoodObject, Live
<1>4. LabelMatches'
  BY <1>2 DEF IInv, LabelMatches, GoodObject, Live
<1>5. QED
  BY <1>1, <1>3, <1>4 DEF IInv

\* Emptying a slot keeps the inductive invariant.
LEMMA RemovePreserves ==
    ASSUME IInv, NEW s \in Slots,
           obj' = [obj EXCEPT ![s] = None], UNCHANGED <<binding, enforcing>>
    PROVE  IInv'
<1>1. TypeOK'
  BY DEF IInv, TypeOK
<1>2. ASSUME NEW x \in Slots
      PROVE  obj'[x] = IF x = s THEN None ELSE obj[x]
  BY DEF IInv, TypeOK
<1>3. TierSAVouched'
  BY <1>2 DEF IInv, TierSAVouched, Live
<1>4. LabelMatches'
  BY <1>2 DEF IInv, LabelMatches, Live
<1>5. QED
  BY <1>1, <1>3, <1>4 DEF IInv

\* An admitted write is a good object.
LEMMA WrittenIsGood ==
    ASSUME enforcing \subseteq Policies,
           NEW r \in Requesters, NEW kind \in Kinds, NEW app \in Apps,
           NEW sa \in ServiceAccts, CanWrite(r, kind),
           Admitted(r, kind, app, sa, enforcing)
    PROVE  GoodObject(Written(r, kind, app, sa))
<1> DEFINE o == Written(r, kind, app, sa)
<1>1. /\ o \in Object
      /\ o.kind = kind /\ o.app = app /\ o.sa = sa
      /\ o.vouched = Trusted(r) /\ o.lax = Policies \ enforcing
  BY WrittenType DEF Written
<1>2. ASSUME o.sa \in GatedSAs, "shop-sa-use" \notin o.lax
      PROVE  o.vouched
  <2>1. "shop-sa-use" \in enforcing
    BY <1>1, <1>2 DEF Policies
  <2>2. QED
    BY <1>1, <1>2, <2>1, AdmittedTierIsTrusted
<1>3. ASSUME o.kind = "pods", o.app \in Tiers, "shop-label-identity" \notin o.lax
      PROVE  o.sa = SAOf[o.app]
  <2>1. "shop-label-identity" \in enforcing
    BY <1>1, <1>3 DEF Policies
  <2>2. LabelIdentityOK(kind, app, sa)
    BY <2>1 DEF Admitted
  <2>3. QED
    BY <1>1, <1>3, <2>2, AdmissionAssumption DEF LabelIdentityOK
<1>4. QED
  BY <1>1, <1>2, <1>3 DEF GoodObject

\* What a controller makes from a good object is a good object.
LEMMA ChildIsGood ==
    ASSUME IInv, NEW s \in Slots, Live(s),
           Admitted(Controller, ChildKind(obj[s].kind), obj[s].app, obj[s].sa, enforcing)
    PROVE  GoodObject([obj[s] EXCEPT !.kind = ChildKind(obj[s].kind), !.owner = s,
                                     !.lax = @ \cup (Policies \ enforcing)])
<1> DEFINE o == [obj[s] EXCEPT !.kind = ChildKind(obj[s].kind), !.owner = s,
                               !.lax = @ \cup (Policies \ enforcing)]
           kind == ChildKind(obj[s].kind)
<1>1. obj[s] \in Object /\ enforcing \subseteq Policies
  BY DEF IInv, TypeOK, Live
<1>2. kind \in Kinds
  BY DEF ChildKind, Kinds, GatedKinds
<1>3. /\ o \in Object
      /\ o.kind = kind /\ o.app = obj[s].app /\ o.sa = obj[s].sa
      /\ o.vouched = obj[s].vouched
      /\ o.lax = obj[s].lax \cup (Policies \ enforcing)
  BY <1>1, <1>2 DEF Object
<1>4. o.sa \in GatedSAs => o.vouched \/ "shop-sa-use" \in o.lax
  BY <1>3 DEF IInv, TierSAVouched
<1>5. ASSUME o.kind = "pods", o.app \in Tiers, "shop-label-identity" \notin o.lax
      PROVE  o.sa = SAOf[o.app]
  <2>1. "shop-label-identity" \in enforcing
    BY <1>3, <1>5 DEF Policies
  <2>2. LabelIdentityOK(kind, obj[s].app, obj[s].sa)
    BY <2>1 DEF Admitted
  <2>3. QED
    BY <1>3, <1>5, <2>2, AdmissionAssumption DEF LabelIdentityOK
<1>6. QED
  BY <1>3, <1>4, <1>5 DEF GoodObject

-----------------------------------------------------------------------------
(***************************************************************************)
(* The inductive step, one fact per action.                                *)
(***************************************************************************)
\* An empty namespace without policies satisfies the inductive invariant.
LEMMA InitEstablishes == Init => IInv
BY IdentityAssumption
   DEF Init, IInv, TypeOK, TierSAVouched, LabelMatches, Live

\* A step that leaves the objects alone keeps the two object parts.
LEMMA ObjectsUnchanged ==
    ASSUME IInv, UNCHANGED obj, TypeOK'
    PROVE  IInv'
BY DEF IInv, TierSAVouched, LabelMatches, Live

\* Applying, downgrading and observing the policies keep the invariant: what
\* was admitted before stays marked with what was not enforced then.
LEMMA PolicyStepPreserves == IInv /\ PolicyStep => IInv'
<1> SUFFICES ASSUME IInv, PolicyStep PROVE IInv'
  OBVIOUS
<1>1. ASSUME NEW p \in Policies, ApplyPolicy(p) PROVE IInv'
  <2>1. TypeOK'
    BY <1>1 DEF ApplyPolicy, IInv, TypeOK
  <2>2. QED
    BY <1>1, <2>1, ObjectsUnchanged DEF ApplyPolicy
<1>2. ASSUME Downgrade PROVE IInv'
  <2>1. TypeOK'
    BY <1>2 DEF Downgrade, IInv, TypeOK
  <2>2. QED
    BY <1>2, <2>1, ObjectsUnchanged DEF Downgrade
<1>3. ASSUME ObservePolicies PROVE IInv'
  <2>1. TypeOK'
    BY <1>3 DEF ObservePolicies, IInv, TypeOK
  <2>2. QED
    BY <1>3, <2>1, ObjectsUnchanged DEF ObservePolicies
<1>4. QED
  BY <1>1, <1>2, <1>3 DEF PolicyStep

\* So do a requester's create, update and delete, each judged by admission.
LEMMA UserStepPreserves == IInv /\ UserStep => IInv'
<1> SUFFICES ASSUME IInv, NEW r \in Requesters, NEW s \in Workloads,
                    \/ \E kind \in UsedKinds, app \in Apps, sa \in ServiceAccts :
                           UserCreate(r, s, kind, app, sa)
                    \/ \E app \in Apps, sa \in ServiceAccts : UserUpdate(r, s, app, sa)
                    \/ UserDelete(r, s)
             PROVE  IInv'
  BY DEF UserStep
<1>1. s \in Slots /\ enforcing \subseteq Policies
  BY DEF Slots, IInv, TypeOK
<1>2. ASSUME NEW kind \in UsedKinds, NEW app \in Apps, NEW sa \in ServiceAccts,
             UserCreate(r, s, kind, app, sa)
      PROVE  IInv'
  <2>1. GoodObject(Written(r, kind, app, sa))
    BY <1>1, <1>2, WrittenIsGood, IdentityAssumption DEF UserCreate
  <2>2. QED
    BY <1>1, <1>2, <2>1, PutPreserves DEF UserCreate
<1>3. ASSUME NEW app \in Apps, NEW sa \in ServiceAccts, UserUpdate(r, s, app, sa)
      PROVE  IInv'
  <2>1. obj[s].kind \in Kinds
    BY <1>1, <1>3 DEF UserUpdate, Live, IInv, TypeOK, Object
  <2>2. GoodObject(Written(r, obj[s].kind, app, sa))
    BY <1>1, <1>3, <2>1, WrittenIsGood DEF UserUpdate
  <2>3. QED
    BY <1>1, <1>3, <2>2, PutPreserves DEF UserUpdate
<1>4. ASSUME UserDelete(r, s) PROVE IInv'
  BY <1>1, <1>4, RemovePreserves DEF UserDelete
<1>5. QED
  BY <1>2, <1>3, <1>4

\* So do the controllers, whose objects inherit their owner's history.
LEMMA ControllerStepPreserves == IInv /\ ControllerStep => IInv'
<1> SUFFICES ASSUME IInv, ControllerStep PROVE IInv'
  OBVIOUS
<1>1. ASSUME NEW s \in Slots, NEW c \in Parts, ControllerCreate(s, c)
      PROVE  IInv'
  <2>1. c \in Slots
    BY DEF Slots
  <2>2. QED
    BY <1>1, <2>1, ChildIsGood, PutPreserves DEF ControllerCreate
<1>2. ASSUME NEW s \in Parts, ControllerDelete(s) PROVE IInv'
  BY <1>2, RemovePreserves DEF ControllerDelete, Slots
<1>3. QED
  BY <1>1, <1>2 DEF ControllerStep

\* Every step of Identity, a stuttering one included, keeps the invariant.
LEMMA StepPreserves == IInv /\ [Next]_vars => IInv'
<1> SUFFICES ASSUME IInv, [Next]_vars PROVE IInv'
  OBVIOUS
<1>1. ASSUME NEW s \in Slots, PodGone(s) PROVE IInv'
  BY <1>1, RemovePreserves DEF PodGone
<1>2. ASSUME UNCHANGED vars PROVE IInv'
  BY <1>2 DEF vars, IInv, TypeOK, TierSAVouched, LabelMatches, Live
<1>3. QED
  BY <1>1, <1>2, PolicyStepPreserves, UserStepPreserves, ControllerStepPreserves
     DEF Next

\* The inductive invariant holds in every reachable state.
THEOREM Inductive == Spec => []IInv
<1>1. QED
  BY InitEstablishes, StepPreserves, PTL DEF Spec

\* Every object is of its type, whatever the policies and requesters do.
THEOREM TypeCorrect == Spec => []TypeOK
<1>1. IInv => TypeOK
  BY DEF IInv
<1>2. QED
  BY <1>1, Inductive, PTL

\* No tier ServiceAccount is used on behalf of an untrusted requester that
\* wrote its workload while the gate was enforced.
THEOREM TierSAIsVouched == Spec => []TierSAVouched
<1>1. IInv => TierSAVouched
  BY DEF IInv
<1>2. QED
  BY <1>1, Inductive, PTL

\* The network identity of every pod admitted under both policies is its own
\* and vouched for.
THEOREM NetworkIdentityIsVouched == Spec => []NetworkIdentityVouched
<1>1. IInv => NetworkIdentityVouched
  BY AdmissionAssumption
     DEF IInv, TierSAVouched, LabelMatches, NetworkIdentityVouched
<1>2. QED
  BY <1>1, Inductive, PTL

-----------------------------------------------------------------------------
(***************************************************************************)
(* Identity implements TierCapability.                                     *)
(***************************************************************************)
Cap == [s \in Slots |-> HeldCapability(s)]

CapabilityOf(o) ==
    IF o # None /\ o.sa \in GatedSAs
    THEN [sa |-> o.sa, sound |-> o.vouched] ELSE None

\* The mapped gate: open while shop-sa-use is not enforced.
Open == "shop-sa-use" \notin enforcing

\* Putting an object in a slot changes the capability of that slot only.
LEMMA PutMaps ==
    ASSUME TypeOK, NEW s \in Slots, NEW o \in Object \cup {None},
           obj' = [obj EXCEPT ![s] = o]
    PROVE  Cap' = [Cap EXCEPT ![s] = CapabilityOf(o)]
<1>1. ASSUME NEW x \in Slots
      PROVE  HeldCapability(x)' = IF x = s THEN CapabilityOf(o) ELSE HeldCapability(x)
  <2>1. obj'[x] = IF x = s THEN o ELSE obj[x]
    BY DEF TypeOK
  <2>2. QED
    BY <2>1 DEF HeldCapability, Live, CapabilityOf
<1>2. QED
  BY <1>1 DEF Cap

\* The empty namespace maps to the empty capability table, gate open.
LEMMA InitMaps == Init => Capabilities!Init
BY DEF Init, Capabilities!Init, HeldCapability, Live

\* An admitted write grants, places or drops a capability.
LEMMA WriteMaps ==
    ASSUME TypeOK, NEW r \in Requesters, NEW s \in Slots, NEW kind \in Kinds,
           NEW app \in Apps, NEW sa \in ServiceAccts, CanWrite(r, kind),
           Admitted(r, kind, app, sa, enforcing),
           obj' = [obj EXCEPT ![s] = Written(r, kind, app, sa)],
           UNCHANGED enforcing
    PROVE  Capabilities!Next
<1> DEFINE o == Written(r, kind, app, sa)
<1>1. o \in Object /\ o.sa = sa /\ o.vouched = Trusted(r) /\ Trusted(r) \in BOOLEAN
  BY WrittenType DEF TypeOK, Written, Trusted
<1>2. o # None
  BY <1>1, IdentityAssumption
<1>3. CASE sa \in GatedSAs
  <2> Cap' = [Cap EXCEPT ![s] = CapabilityOf(o)]
    BY <1>1, PutMaps
  <2>1. Cap' = [Cap EXCEPT ![s] = [sa |-> sa, sound |-> Trusted(r)]]
    BY <1>1, <1>2, <1>3 DEF CapabilityOf
  <2>2. Trusted(r) \/ Open
    BY <1>3, AdmittedTierIsTrusted DEF Open
  <2>3. Capabilities!Place(s, Trusted(r))
    BY <1>3, <2>1, <2>2 DEF Capabilities!Place, Cap, Open
  <2>4. QED
    BY <1>1, <2>3 DEF Capabilities!Next
<1>4. CASE sa \notin GatedSAs
  <2> Cap' = [Cap EXCEPT ![s] = CapabilityOf(o)]
    BY <1>1, PutMaps
  <2>1. Cap' = [Cap EXCEPT ![s] = None]
    BY <1>1, <1>2, <1>4 DEF CapabilityOf
  <2>2. Capabilities!Drop(s)
    BY <2>1 DEF Capabilities!Drop, Cap
  <2>3. QED
    BY <2>2 DEF Capabilities!Next
<1>5. QED
  BY <1>3, <1>4

\* Every removal drops a capability.
LEMMA RemoveMaps ==
    ASSUME TypeOK, NEW s \in Slots, obj' = [obj EXCEPT ![s] = None],
           UNCHANGED enforcing
    PROVE  Capabilities!Next
<1>1. Cap' = [Cap EXCEPT ![s] = CapabilityOf(None)]
  BY PutMaps
<1>2. Capabilities!Drop(s)
  BY <1>1 DEF Capabilities!Drop, Cap, CapabilityOf
<1>3. QED
  BY <1>2 DEF Capabilities!Next

\* A controller copies the capability of the object it acts for.
LEMMA CreateMaps ==
    ASSUME IInv, NEW s \in Slots, NEW c \in Slots, ControllerCreate(s, c)
    PROVE  Capabilities!Next
<1> DEFINE o == [obj[s] EXCEPT !.kind = ChildKind(obj[s].kind), !.owner = s,
                               !.lax = @ \cup (Policies \ enforcing)]
<1>1. obj[s] \in Object /\ o \in Object
  BY ChildIsGood DEF ControllerCreate, GoodObject, IInv, TypeOK, Live
<1>2. o.sa = obj[s].sa /\ o.vouched = obj[s].vouched
  BY <1>1 DEF Object
<1>3. o # None /\ obj[s] # None
  BY <1>1, IdentityAssumption
<1>4. Cap' = [Cap EXCEPT ![c] = Cap[s]]
  <2>1. obj' = [obj EXCEPT ![c] = o]
    BY DEF ControllerCreate
  <2>2. HeldCapability(s) = CapabilityOf(o)
    BY <1>2, <1>3 DEF HeldCapability, Live, CapabilityOf
  <2>3. Cap[s] = HeldCapability(s)
    BY DEF Cap
  <2>4. QED
    BY <1>1, <1>3, <2>1, <2>2, <2>3, PutMaps DEF IInv
<1>5. Capabilities!Copy(s, c)
  BY <1>4 DEF ControllerCreate, Capabilities!Copy, Cap
<1>6. QED
  BY <1>5 DEF Capabilities!Next

\* Every step maps to a step of TierCapability, or to no change of it.
LEMMA StepMaps ==
    IInv /\ [Next]_vars => [Capabilities!Next]_<<Open, Cap>>
<1> SUFFICES ASSUME IInv, [Next]_vars PROVE [Capabilities!Next]_<<Open, Cap>>
  OBVIOUS
<1> TypeOK
  BY DEF IInv
<1>1. ASSUME UNCHANGED obj PROVE [Capabilities!Next]_<<Open, Cap>>
  <2>1. UNCHANGED Cap
    BY <1>1 DEF Cap, HeldCapability, Live
  <2>2. Capabilities!SetGate
    BY <2>1 DEF Capabilities!SetGate, Cap, Open
  <2>3. QED
    BY <2>2 DEF Capabilities!Next
<1>2. CASE PolicyStep
  BY <1>1, <1>2 DEF PolicyStep, ApplyPolicy, Downgrade, ObservePolicies
<1>3. ASSUME NEW r \in Requesters, NEW s \in Workloads, NEW kind \in UsedKinds,
             NEW app \in Apps, NEW sa \in ServiceAccts, UserCreate(r, s, kind, app, sa)
      PROVE  Capabilities!Next
  BY <1>3, WriteMaps, IdentityAssumption DEF UserCreate, Slots
<1>4. ASSUME NEW r \in Requesters, NEW s \in Workloads,
             NEW app \in Apps, NEW sa \in ServiceAccts, UserUpdate(r, s, app, sa)
      PROVE  Capabilities!Next
  <2>1. s \in Slots
    BY DEF Slots
  <2>2. obj[s].kind \in Kinds
    BY <1>4, <2>1 DEF UserUpdate, Live, TypeOK, Object
  <2>3. QED
    BY <1>4, <2>1, <2>2, WriteMaps DEF UserUpdate
<1>5. ASSUME NEW r \in Requesters, NEW s \in Workloads, UserDelete(r, s)
      PROVE  Capabilities!Next
  BY <1>5, RemoveMaps DEF UserDelete, Slots
<1>6. ASSUME NEW s \in Slots, NEW c \in Parts, ControllerCreate(s, c)
      PROVE  Capabilities!Next
  BY <1>6, CreateMaps DEF Slots
<1>7. ASSUME NEW s \in Parts, ControllerDelete(s) PROVE Capabilities!Next
  BY <1>7, RemoveMaps DEF ControllerDelete, Slots
<1>8. ASSUME NEW s \in Slots, PodGone(s) PROVE Capabilities!Next
  BY <1>8, RemoveMaps DEF PodGone
<1>9. CASE UNCHANGED vars
  BY <1>1, <1>9 DEF vars
<1>10. QED
  BY <1>2, <1>3, <1>4, <1>5, <1>6, <1>7, <1>8, <1>9
     DEF Next, UserStep, ControllerStep

\* Under every interleaving of writes, controllers and policy changes, tier
\* ServiceAccounts obey the capability discipline of TierCapability.
THEOREM ImplementsCapability == Spec => ImplementsTierCapability
<1>1. [Capabilities!Next]_<<Open, Cap>>
          <=> [Capabilities!Next]_<<"shop-sa-use" \notin enforcing,
                                    [s \in Slots |-> HeldCapability(s)]>>
  BY DEF Open, Cap
<1>2. QED
  BY <1>1, InitMaps, StepMaps, Inductive, PTL
     DEF Spec, ImplementsTierCapability, Capabilities!Spec

=============================================================================
