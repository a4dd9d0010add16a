---------------------- MODULE MCDonchianEnsemble ----------------------
(* Horizons of a few days, as in tests/test_donchian_ensemble.py, and *)
(* closes with flat runs, equal returns (1, 2, 4) and small setbacks. *)
EXTENDS DonchianEnsemble

DailyCloses == {1, 2, 3, 4}
FewHorizons == {2, 4}
ModelWeights == {4, 5, 8}
======================================================================
