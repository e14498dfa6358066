------------------------- MODULE MCBrowserSession -------------------------
\* Instances of BrowserSession for TLC; the configurations give the constants values.
EXTENDS BrowserSession, TLC

CONSTANTS tab1, tab2, call1, call2

\* Tabs and calls are interchangeable.
Symmetry == Permutations(Tab) \union Permutations(Call)

=============================================================================
