------------------------- MODULE MCConnectionServer -------------------------
EXTENDS ConnectionServer, TLC

\* Every websocket is of the same user: the cases of interest are races between
\* websockets of one login.
OneLogin == [s \in Socket |-> CHOOSE u \in User : TRUE]

ConnectionSymmetry == Permutations(Socket) \cup Permutations(Call)
=============================================================================
