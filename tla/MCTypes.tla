------------------------------- MODULE MCTypes -------------------------------
EXTENDS Types

\* The types declarations are written with; integer and boolean vectors come
\* from `var'.
Declared == {Untyped, PrimitiveType("integer"), PrimitiveType("real"), VectorType("real")}

=============================================================================
