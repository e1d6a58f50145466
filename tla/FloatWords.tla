------------------------------ MODULE FloatWords ------------------------------
(***************************************************************************)
(* The primitives of the floating point word set.                          *)
(* Source: float.c.                                                        *)
(***************************************************************************)
EXTENDS CoreWords

DoubleFloats == {
  Data(P, {"dfaligned", "dfloat+", "dfloats"}, 1, 1),
  Exact(P, {"df!"}, Cells(1, 1, 0), Cells(0, 0, 0)),
  Exact(P, {"df@"}, Cells(1, 0, 0), Cells(0, 1, 0))}

SingleFloats == {
  Data(P, {"sfaligned", "sfloat+", "sfloats"}, 1, 1),
  Exact(P, {"sf!"}, Cells(1, 1, 0), Cells(0, 0, 0)),
  Exact(P, {"sf@"}, Cells(1, 0, 0), Cells(0, 1, 0))}

FloatConstants == {
  Float(P, {"fconstant", "fvalue"}, 1, 0),
  Float(P, {"f2constant", "f2value"}, 2, 0)}

Represent == {Exact(P, {"represent"}, Cells(2, 1, 0), Cells(3, 0, 0))}

(* (F.), (FS.) and (FE.) check for room on the data stack themselves, and  *)
(* the part they share with F., FS. and FE. checks for the float.          *)
FixedTexts == {
  Float(P, {"f."}, 1, 0),
  Exact(P, {"(f.)"}, Cells(0, 1, 0), Cells(2, 0, 0))}

ScientificTexts == {
  Float(P, {"fs."}, 1, 0),
  Exact(P, {"(fs.)"}, Cells(0, 1, 0), Cells(2, 0, 0))}

EngineeringTexts == {
  Float(P, {"fe."}, 1, 0),
  Exact(P, {"(fe.)"}, Cells(0, 1, 0), Cells(2, 0, 0)),
  Data(P, {"precision"}, 0, 1),
  Data(P, {"set-precision"}, 1, 0)}

FloatLiterals == {
  Data(P, {"fdepth"}, 0, 1),
  Float(P, {"fliteral"}, 1, 0),
  Float(P, {"fsqrt", "x**2"}, 1, 1)}

(* FSOLVE2 leaves the roots when there are any. *)
Vectors == {
  Family(P, {"fsolve2"}, {Check("data", 0, 1), Check("float", 3, 2)},
         Cells(0, 3, 0), Cells(1, 2, 0), {}),
  Family(P, {"fsolve2"}, {Check("data", 0, 1), Check("float", 3, 2)},
         Cells(0, 3, 0), Cells(1, 0, 0), {}),
  Exact(P, {"faxpy"},  Cells(5, 1, 0), Cells(0, 0, 0)),
  Exact(P, {"faxpy1"}, Cells(3, 1, 0), Cells(0, 0, 0)),
  Exact(P, {"fdot"},   Cells(5, 0, 0), Cells(0, 1, 0)),
  Exact(P, {"fdot1"},  Cells(3, 0, 0), Cells(0, 1, 0)),
  Data(P, {"fmm"}, 6, 0)}

(* What the macros FBINARY and FUNARY make. *)
FloatFunctions == {
  Float(P, {"fmin", "fmax", "f**", "fatan2"}, 2, 1),
  Float(P, {"floor", "fround", "ftrunc", "fabs"}, 1, 1)}

Transcendentals == {
  Float(P, {"facos", "facosh", "falog", "fasin", "fasinh", "fatan", "fatanh",
            "fcos", "fcosh", "fexp", "fexpm1", "2**x", "fln", "flnp1", "flog",
            "log2", "fsin", "fsinh", "ftan", "ftanh"}, 1, 1),
  Float(P, {"fsincos"}, 1, 2)}

DoubleConversions == {
  Exact(P, {"d>f"}, Cells(2, 0, 0), Cells(0, 1, 0)),
  Exact(P, {"f>d"}, Cells(0, 1, 0), Cells(2, 0, 0))}

FloatPredicates == {
  Exact(P, {"f~"}, Cells(0, 3, 0), Cells(1, 0, 0)),
  Exact(P, {"f<=", "f>=", "f<>"}, Cells(0, 2, 0), Cells(1, 0, 0)),
  Exact(P, {"fnan?", "finfinite?"}, Cells(0, 1, 0), Cells(1, 0, 0))}

(* The parse step looks for room before it looks at the text; a float in a *)
(* definition is compiled and does not stay.                               *)
FloatNumbers == {
  OnFloat(P, {"?float"}, {Check("float", 0, 1)}, 0, 1, {}),
  OnFloat(P, {"?float"}, {Check("float", 0, 1)}, 0, 0, {}),
  Brief(P, {"?float"}, {Check("float", 0, 1)},
        Cells(0, 0, 0), Cells(0, 1, 0), Cells(0, 1, 0), {})}

Polynomials == {Exact(P, {"poly", "odd-poly"}, Cells(2, 1, 0), Cells(0, 1, 0))}

FloatWords ==
  DoubleFloats \cup SingleFloats \cup FloatConstants \cup Represent \cup
  FixedTexts \cup ScientificTexts \cup EngineeringTexts \cup FloatLiterals \cup
  Vectors \cup FloatFunctions \cup Transcendentals \cup DoubleConversions \cup
  FloatPredicates \cup FloatNumbers \cup Polynomials
===============================================================================
