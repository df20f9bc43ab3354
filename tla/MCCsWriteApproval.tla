-------------------------- MODULE MCCsWriteApproval --------------------------
(***************************************************************************)
(* Instances of CsWriteApproval: three connections of two devices, *)
(* and writes of each kind the callbacks tell apart.                       *)
(***************************************************************************)
EXTENDS CsWriteApproval, TLC

CONSTANTS lpc, lpp, s1, s2, s3, ski1, ski2

\* The first device connects a second time; the other may be there meanwhile.
OneDevice  == s1 :> ski1 @@ s2 :> ski1
TwoDevices == s1 :> ski1 @@ s2 :> ski1 @@ s3 :> ski2

LimitWrite(ucs)  == [feature |-> "LoadControl", items |-> {LimitOf(uc) : uc \in ucs}]
ConfigWrite(its) == [feature |-> "DeviceConfiguration", items |-> its]

\* A limit of one use case, the shared failsafe duration, and one failsafe
\* limit beside an entry of no use case.
MainKinds == {LimitWrite({lpc}), ConfigWrite({DurationMinimum}),
              ConfigWrite({FailsafeOf(lpp), Other})}

\* The two connections of the first device are interchangeable.
Interchangeable == Permutations({s1, s2})

\* Limits of both, a failsafe limit of one, and an unusable write.
FewKinds == {LimitWrite({lpc, lpp}), ConfigWrite({FailsafeOf(lpp)}),
             ConfigWrite({DurationMinimum, NoId})}
=============================================================================
