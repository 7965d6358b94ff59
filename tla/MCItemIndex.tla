---------------------------- MODULE MCItemIndex ----------------------------
EXTENDS ItemIndexRleDE, ItemIndexWAH, ItemIndexFoR, ItemIndexPlain

MCBlockSizes == <<1, 2, 4>>
MCLines == {<<0, 0>>, <<5, 1>>, <<3, -2>>, <<7, 4>>}
=============================================================================
