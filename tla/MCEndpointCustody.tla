-------------------------- MODULE MCEndpointCustody --------------------------
\* Two children, two panes (one opened headless), one piece of work: enough
\* for two siblings on one row and for a pane overtaking a child.
EXTENDS EndpointCustody
=============================================================================
