----------------------- MODULE MC_DescriptionParser -----------------------
EXTENDS DescriptionParser, TLC

CONSTANTS cla, header, bugfix, other

\* 'Bug Fix' maps to a label; 'Other' is a category the map leaves out
MCCategories == {bugfix, other}
MCLabel == bugfix :> "pr-bugfix"

=============================================================================
