------------------------------ MODULE MCCcStore ------------------------------
\* A run with two plugins that are alike: none of the properties tells them apart.
EXTENDS CcStore, TLC

PluginSymmetry == Permutations(Plugins)
=============================================================================
