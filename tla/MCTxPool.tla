------------------------------ MODULE MCTxPool ------------------------------
(***************************************************************************)
(* Transactions and a block tree for TLC.                                  *)
(***************************************************************************)
EXTENDS TxPool

(***************************************************************************)
(* c0 pays two coins.  t1 and t3 spend the first; t2, t4 and the           *)
(* nonstandard n come after t1, t4 with two parents, and r after t3.  f, d *)
(* (from the dialog), e (low fee) and the coinstake k spend the second.  s *)
(* spends a coinbase that is only on one branch.                           *)
(***************************************************************************)
MCVin == [cg |-> {}, c0 |-> {}, cp |-> {}, ca |-> {}, ca2 |-> {}, cb |-> {}, cd |-> {},
          cx |-> {}, cb2 |-> {}, cq |-> {},
          t1 |-> {<<"c0", 1>>}, t2 |-> {<<"t1", 1>>}, t3 |-> {<<"c0", 1>>},
          t4 |-> {<<"t1", 2>>, <<"t2", 1>>}, n |-> {<<"t1", 1>>},
          d |-> {<<"c0", 2>>}, e |-> {<<"c0", 2>>}, k |-> {<<"c0", 2>>},
          f |-> {<<"c0", 2>>}, r |-> {<<"t3", 1>>}, s |-> {<<"ca", 1>>}]
MCTx        == DOMAIN MCVin
MCVout      == [t \in MCTx |-> IF t \in {"c0", "t1"} THEN 2 ELSE 1]
MCCoinBase  == {"cg", "c0", "cp", "ca", "ca2", "cb", "cd", "cx", "cb2", "cq"}
MCCoinStake == {"k"}

(***************************************************************************)
(* Four branches on p: two with a child that spend the same coin, one with *)
(* the same transaction t1, and one with nothing; x is not valid.          *)
(***************************************************************************)
MCParent == [o |-> "g", p |-> "o", a |-> "p", a2 |-> "a", b |-> "p", b2 |-> "b",
             dd |-> "p", x |-> "a", q |-> "p"]
MCBlock  == {"g"} \cup DOMAIN MCParent
MCVtx    == [g |-> <<"cg">>, o |-> <<"c0">>, p |-> <<"cp">>, a |-> <<"ca", "t1">>,
             a2 |-> <<"ca2", "t2", "s">>, b |-> <<"cb", "t3", "e">>,
             b2 |-> <<"cb2", "r">>, dd |-> <<"cd", "t1", "n">>, x |-> <<"cx", "t3">>, q |-> <<"cq">>]
MCGenesis     == "g"
MCNonStandard == {"n"}
MCLowFee      == {"e"}
MCDialogTx    == {"d"}
MCWalletTx    == {"t2", "t3"}
NoDialog      == {}
NoWallet      == {}
MCLarge       == {"s", "d", "e", "f", "t3"}
MCNoTx        == "none"
None          == {}
=============================================================================
