---------------------------- MODULE MCExtension ----------------------------
\* Extension with callbacks of the other signatures in a namespace, in a class
\* and beside them.
EXTENDS Extension

MCOthers == <<
  Element("namespace", "Ns", <<
    Callable("other", << >>, FALSE, FALSE, {}),
    Callable("other", <<ByVal, Argument(FALSE)>>, TRUE, FALSE, {})>>),
  Element("constant", "Constant", << >>),
  Element("class", "Class", <<
    Method("other", <<ByVal>>, TRUE, TRUE, {"Public"}),
    Method("other", << >>, FALSE, FALSE, {"Protected", "Final"}),
    StaticMethod("other", << >>, FALSE, TRUE, {"Public"}),
    AbstractMethod(<<ByVal>>, {"Public"})>>)>>
=============================================================================
