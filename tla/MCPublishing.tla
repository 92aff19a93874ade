----------------------------- MODULE MCPublishing -----------------------------
EXTENDS PublishingDelivery, TLC

CONSTANTS p1

\* One post with one Instagram and one TikTok target.
OnePost == [t \in Targets |-> p1]

\* A post for every target.
PostEach == CHOOSE f \in [Targets -> Posts] : \A s, t \in Targets : f[s] = f[t] => s = t

\* Every post has every asset.
AllMedia == [p \in Posts |-> Assets]

WorkerSymmetry == Permutations(Workers)
=============================================================================
