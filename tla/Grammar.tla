------------------------------ MODULE Grammar ------------------------------
(***************************************************************************)
(* The grammar of ERPLAG, as files/grammar_files/productions.txt has it:   *)
(* the symbols of a right-hand side are terminals, nonterminals and the    *)
(* semantic actions "501" .. "585", which build the syntax tree while the  *)
(* parser runs.                                                            *)
(***************************************************************************)
EXTENDS Integers, Sequences

(* The terminals; EPSILON stands for the empty right-hand side.            *)
Terminals == { "PLUS", "MINUS", "MUL", "DIV", "LT", "GT", "COLON", "RANGEOP", "SEMICOLON",
  "COMMA", "SQBO", "SQBC", "BO", "BC", "LE", "GE", "EQ", "NE", "DEF", "ENDDEF", "ASSIGN_OP",
  "COMMENTMARK", "DRIVERDEF", "DRIVERENDDEF", "ID", "NUM", "RNUM", "INTEGER", "REAL",
  "BOOLEAN", "OF", "ARRAY", "START", "END", "DECLARE", "MODULE", "DRIVER", "PROGRAM",
  "GET_VALUE", "PRINT", "USE", "WITH", "PARAMETERS", "TAKES", "INPUT", "RETURNS", "FOR", "IN",
  "SWITCH", "CASE", "BREAK", "DEFAULT", "WHILE", "AND", "OR", "TRUE", "FALSE", "INVALID",
  "DOLLAR", "EPSILON" }

(* The tokens of the keywords, which end error recovery.                   *)
KeywordTokens == { "INTEGER", "REAL", "BOOLEAN", "OF", "ARRAY", "START", "END", "DECLARE",
  "MODULE", "DRIVER", "PROGRAM", "GET_VALUE", "PRINT", "USE", "WITH", "PARAMETERS", "TAKES",
  "INPUT", "RETURNS", "FOR", "IN", "SWITCH", "CASE", "BREAK", "DEFAULT", "WHILE", "AND", "OR",
  "TRUE", "FALSE", "INVALID" }

StartSymbol == "Pro"

(* The productions in the order of the file.                               *)
Productions == <<
  [lhs |-> "Pro", rhs |-> << "504", "520", "moduleDeclarations", "otherModules",
    "driverModule", "otherModules" >>],
  [lhs |-> "moduleDeclarations", rhs |-> << "moduleDeclaration", "moduleDeclarations" >>],
  [lhs |-> "moduleDeclarations", rhs |-> << "EPSILON" >>],
  [lhs |-> "moduleDeclaration", rhs |-> << "DECLARE", "MODULE", "521", "ID", "SEMICOLON" >>],
  [lhs |-> "otherModules", rhs |-> << "module", "otherModules" >>],
  [lhs |-> "otherModules", rhs |-> << "EPSILON" >>],
  [lhs |-> "driverModule", rhs |-> << "DRIVERDEF", "DRIVER", "PROGRAM", "DRIVERENDDEF", "501",
    "driverModuleDef" >>],
  [lhs |-> "module", rhs |-> << "DEF", "522", "MODULE", "523", "ID", "ENDDEF", "TAKES",
    "INPUT", "524", "SQBO", "inputParameterList", "SQBC", "SEMICOLON", "returnList",
    "moduleDef" >>],
  [lhs |-> "returnList", rhs |-> << "RETURNS", "534", "SQBO", "outputParameterList", "SQBC",
    "SEMICOLON" >>],
  [lhs |-> "returnList", rhs |-> << "EPSILON", "535" >>],
  [lhs |-> "inputParameterList", rhs |-> << "525", "ID", "COLON", "iplDataType", "532",
    "ZInputParameterList" >>],
  [lhs |-> "ZInputParameterList", rhs |-> << "COMMA", "525", "ID", "COLON", "iplDataType",
    "532", "ZInputParameterList" >>],
  [lhs |-> "ZInputParameterList", rhs |-> << "EPSILON", "533" >>],
  [lhs |-> "outputParameterList", rhs |-> << "536", "ID", "COLON", "537", "dataType", "538",
    "ZOutputParameterList" >>],
  [lhs |-> "ZOutputParameterList", rhs |-> << "COMMA", "536", "ID", "COLON", "537", "dataType",
    "538", "ZOutputParameterList" >>],
  [lhs |-> "ZOutputParameterList", rhs |-> << "EPSILON", "539" >>],
  [lhs |-> "iplDataType", rhs |-> << "526", "dataType" >>],
  [lhs |-> "iplDataType", rhs |-> << "arrayDataType" >>],
  [lhs |-> "arrayDataType", rhs |-> << "527", "ARRAY", "SQBO", "range", "SQBC", "OF", "542",
    "dataType" >>],
  [lhs |-> "range", rhs |-> << "528", "Sign", "remainingRange" >>],
  [lhs |-> "remainingRange", rhs |-> << "529", "numOrId", "RANGEOP", "530", "Sign", "531",
    "numOrId" >>],
  [lhs |-> "dataType", rhs |-> << "INTEGER" >>],
  [lhs |-> "dataType", rhs |-> << "REAL" >>],
  [lhs |-> "dataType", rhs |-> << "BOOLEAN" >>],
  [lhs |-> "numOrId", rhs |-> << "NUM" >>],
  [lhs |-> "numOrId", rhs |-> << "ID" >>],
  [lhs |-> "moduleDef", rhs |-> << "540", "START", "statements", "541", "END" >>],
  [lhs |-> "driverModuleDef", rhs |-> << "START", "statements", "505", "END" >>],
  [lhs |-> "statements", rhs |-> << "statement", "statements" >>],
  [lhs |-> "statements", rhs |-> << "EPSILON" >>],
  [lhs |-> "statement", rhs |-> << "COMMA", "arithmeticOrBooleanExpression", "SEMICOLON", "512" >>],
  [lhs |-> "statement", rhs |-> << "ASSIGN_OP", "unaryExpression", "SEMICOLON", "512" >>],
  [lhs |-> "statement", rhs |-> << "ioStatement" >>],
  [lhs |-> "statement", rhs |-> << "simpleStatement" >>],
  [lhs |-> "statement", rhs |-> << "declareStatement" >>],
  [lhs |-> "statement", rhs |-> << "conditionalStatement" >>],
  [lhs |-> "statement", rhs |-> << "iterativeStatement" >>],
  [lhs |-> "ioStatement", rhs |-> << "GET_VALUE", "502", "BO", "503", "ID", "BC", "SEMICOLON" >>],
  [lhs |-> "ioStatement", rhs |-> << "PRINT", "506", "BO", "itemInPrint", "BC", "SEMICOLON" >>],
  [lhs |-> "itemInPrint", rhs |-> << "507", "NUM" >>],
  [lhs |-> "itemInPrint", rhs |-> << "508", "RNUM" >>],
  [lhs |-> "itemInPrint", rhs |-> << "509", "booleanConstant" >>],
  [lhs |-> "itemInPrint", rhs |-> << "555", "ID", "Prarr", "585" >>],
  [lhs |-> "Prarr", rhs |-> << "556", "SQBO", "578", "Sign", "584", "numOrId", "557", "SQBC" >>],
  [lhs |-> "Prarr", rhs |-> << "EPSILON" >>],
  [lhs |-> "booleanConstant", rhs |-> << "TRUE" >>],
  [lhs |-> "booleanConstant", rhs |-> << "FALSE" >>],
  [lhs |-> "Nconst", rhs |-> << "Sign", "Numorrnum" >>],
  [lhs |-> "Numorrnum", rhs |-> << "NUM" >>],
  [lhs |-> "Numorrnum", rhs |-> << "RNUM" >>],
  [lhs |-> "simpleStatement", rhs |-> << "assignmentStatement" >>],
  [lhs |-> "simpleStatement", rhs |-> << "moduleUseStatement" >>],
  [lhs |-> "assignmentStatement", rhs |-> << "567", "ID", "whichAssignment" >>],
  [lhs |-> "whichAssignment", rhs |-> << "leftValueId" >>],
  [lhs |-> "whichAssignment", rhs |-> << "leftValueArray" >>],
  [lhs |-> "leftValueId", rhs |-> << "568", "ASSIGN_OP", "Expr", "569", "SEMICOLON", "570" >>],
  [lhs |-> "leftValueArray", rhs |-> << "571", "SQBO", "arrayIndex", "557", "SQBC", "568",
    "ASSIGN_OP", "Expr", "569", "SEMICOLON", "570" >>],
  [lhs |-> "arrayIndex", rhs |-> << "558", "Sign", "560", "arrayExpression", "559" >>],
  [lhs |-> "arrayExpression", rhs |-> << "arrayTerm", "ZArrayExpression" >>],
  [lhs |-> "ZArrayExpression", rhs |-> << "552", "addSubOp", "553", "arrayTerm", "554",
    "ZArrayExpression" >>],
  [lhs |-> "ZArrayExpression", rhs |-> << "EPSILON" >>],
  [lhs |-> "arrayTerm", rhs |-> << "arrayFactor", "ZArrayTerm" >>],
  [lhs |-> "ZArrayTerm", rhs |-> << "552", "mulDivOp", "553", "arrayFactor", "554",
    "ZArrayTerm" >>],
  [lhs |-> "ZArrayTerm", rhs |-> << "EPSILON" >>],
  [lhs |-> "arrayFactor", rhs |-> << "BO", "arrayExpression", "BC" >>],
  [lhs |-> "arrayFactor", rhs |-> << "555", "ID" >>],
  [lhs |-> "arrayFactor", rhs |-> << "549", "NUM" >>],
  [lhs |-> "arrayFactor", rhs |-> << "551", "booleanConstant" >>],
  [lhs |-> "moduleUseStatement", rhs |-> << "576", "Opt", "USE", "MODULE", "577", "ID", "WITH",
    "PARAMETERS", "parameterList", "582", "SEMICOLON" >>],
  [lhs |-> "Opt", rhs |-> << "SQBO", "idList", "SQBC", "ASSIGN_OP" >>],
  [lhs |-> "Opt", rhs |-> << "EPSILON" >>],
  [lhs |-> "parameterList", rhs |-> << "578", "Sign", "K", "Zparal" >>],
  [lhs |-> "Zparal", rhs |-> << "COMMA", "578", "Sign", "K", "Zparal" >>],
  [lhs |-> "Zparal", rhs |-> << "EPSILON" >>],
  [lhs |-> "K", rhs |-> << "579", "NUM" >>],
  [lhs |-> "K", rhs |-> << "580", "RNUM" >>],
  [lhs |-> "K", rhs |-> << "581", "ID", "arrayBracket", "583" >>],
  [lhs |-> "arithmeticExpression", rhs |-> << "arithmeticTerm", "ZArithmeticExpression" >>],
  [lhs |-> "ZArithmeticExpression", rhs |-> << "552", "addSubOp", "553", "arithmeticTerm",
    "554", "ZArithmeticExpression" >>],
  [lhs |-> "ZArithmeticExpression", rhs |-> << "EPSILON" >>],
  [lhs |-> "arithmeticTerm", rhs |-> << "arithmeticFactor", "ZArithmeticTerm" >>],
  [lhs |-> "ZArithmeticTerm", rhs |-> << "552", "mulDivOp", "553", "arithmeticFactor", "554",
    "ZArithmeticTerm" >>],
  [lhs |-> "ZArithmeticTerm", rhs |-> << "EPSILON" >>],
  [lhs |-> "arithmeticFactor", rhs |-> << "BO", "arithmeticOrBooleanExpression", "BC" >>],
  [lhs |-> "arithmeticFactor", rhs |-> << "555", "ID", "arrayBracket" >>],
  [lhs |-> "arithmeticFactor", rhs |-> << "549", "NUM" >>],
  [lhs |-> "arithmeticFactor", rhs |-> << "550", "RNUM" >>],
  [lhs |-> "arithmeticFactor", rhs |-> << "551", "booleanConstant" >>],
  [lhs |-> "arrayBracket", rhs |-> << "556", "SQBO", "arrayIndex", "557", "SQBC" >>],
  [lhs |-> "arrayBracket", rhs |-> << "EPSILON" >>],
  [lhs |-> "addSubOp", rhs |-> << "PLUS" >>],
  [lhs |-> "addSubOp", rhs |-> << "MINUS" >>],
  [lhs |-> "mulDivOp", rhs |-> << "MUL" >>],
  [lhs |-> "mulDivOp", rhs |-> << "DIV" >>],
  [lhs |-> "logicalOperator", rhs |-> << "AND" >>],
  [lhs |-> "logicalOperator", rhs |-> << "OR" >>],
  [lhs |-> "relationalOperator", rhs |-> << "552", "LT" >>],
  [lhs |-> "relationalOperator", rhs |-> << "552", "LE" >>],
  [lhs |-> "relationalOperator", rhs |-> << "552", "GT" >>],
  [lhs |-> "relationalOperator", rhs |-> << "552", "GE" >>],
  [lhs |-> "relationalOperator", rhs |-> << "552", "EQ" >>],
  [lhs |-> "relationalOperator", rhs |-> << "552", "NE" >>],
  [lhs |-> "declareStatement", rhs |-> << "DECLARE", "561", "idList", "COLON", "idlDataType",
    "SEMICOLON" >>],
  [lhs |-> "idList", rhs |-> << "562", "ID", "ZIdList" >>],
  [lhs |-> "ZIdList", rhs |-> << "COMMA", "562", "ID", "ZIdList" >>],
  [lhs |-> "ZIdList", rhs |-> << "EPSILON" >>],
  [lhs |-> "idlDataType", rhs |-> << "563", "dataType" >>],
  [lhs |-> "idlDataType", rhs |-> << "idlArrayDataType" >>],
  [lhs |-> "idlArrayDataType", rhs |-> << "564", "ARRAY", "SQBO", "range", "SQBC", "OF", "565",
    "dataType", "566" >>],
  [lhs |-> "conditionalStatement", rhs |-> << "SWITCH", "510", "BO", "511", "ID", "BC",
    "START", "caseStatement", "caseStatements", "default1", "512", "END" >>],
  [lhs |-> "caseStatements", rhs |-> << "caseStatement", "caseStatements" >>],
  [lhs |-> "caseStatements", rhs |-> << "EPSILON" >>],
  [lhs |-> "caseStatement", rhs |-> << "CASE", "513", "caseValue", "COLON", "516",
    "statements", "517", "BREAK", "SEMICOLON" >>],
  [lhs |-> "caseValue", rhs |-> << "514", "NUM" >>],
  [lhs |-> "caseValue", rhs |-> << "515", "TRUE" >>],
  [lhs |-> "caseValue", rhs |-> << "515", "FALSE" >>],
  [lhs |-> "default1", rhs |-> << "DEFAULT", "518", "COLON", "statements", "BREAK", "519",
    "SEMICOLON" >>],
  [lhs |-> "default1", rhs |-> << "EPSILON" >>],
  [lhs |-> "iterativeStatement", rhs |-> << "FOR", "BO", "543", "ID", "IN", "forRange", "BC",
    "START", "statements", "548", "END" >>],
  [lhs |-> "iterativeStatement", rhs |-> << "WHILE", "572", "BO",
    "arithmeticOrBooleanExpression", "573", "BC", "START", "574", "statements", "575", "END" >>],
  [lhs |-> "forRange", rhs |-> << "544", "Sign", "545", "NUM", "RANGEOP", "546", "Sign", "547",
    "NUM" >>],
  [lhs |-> "Sign", rhs |-> << "PLUS" >>],
  [lhs |-> "Sign", rhs |-> << "MINUS" >>],
  [lhs |-> "Sign", rhs |-> << "EPSILON" >>],
  [lhs |-> "Expr", rhs |-> << "arithmeticOrBooleanExpression" >>],
  [lhs |-> "Expr", rhs |-> << "unaryExpression" >>],
  [lhs |-> "unaryExpression", rhs |-> << "558", "unaryOperator", "unaryTerm", "559" >>],
  [lhs |-> "unaryOperator", rhs |-> << "PLUS" >>],
  [lhs |-> "unaryOperator", rhs |-> << "MINUS" >>],
  [lhs |-> "unaryTerm", rhs |-> << "BO", "arithmeticExpression", "BC" >>],
  [lhs |-> "unaryTerm", rhs |-> << "584", "numOrId" >>],
  [lhs |-> "unaryTerm", rhs |-> << "550", "RNUM" >>],
  [lhs |-> "arithmeticOrBooleanExpression", rhs |-> << "booleanTerm",
    "ZArithmeticOrBooleanExpression" >>],
  [lhs |-> "ZArithmeticOrBooleanExpression", rhs |-> << "552", "logicalOperator", "553",
    "booleanTerm", "554", "ZArithmeticOrBooleanExpression" >>],
  [lhs |-> "ZArithmeticOrBooleanExpression", rhs |-> << "EPSILON" >>],
  [lhs |-> "booleanTerm", rhs |-> << "arithmeticExpression", "ZBooleanTerm" >>],
  [lhs |-> "ZBooleanTerm", rhs |-> << "relationalOperator", "553", "arithmeticExpression",
    "554" >>],
  [lhs |-> "ZBooleanTerm", rhs |-> << "EPSILON" >>] >>

ProductionSet == { Productions[i] : i \in DOMAIN Productions }
NonTerminals == { p.lhs : p \in ProductionSet }
Actions == { "501", "502", "503", "504", "505", "506", "507", "508", "509", "510", "511",
  "512", "513", "514", "515", "516", "517", "518", "519", "520", "521", "522", "523", "524",
  "525", "526", "527", "528", "529", "530", "531", "532", "533", "534", "535", "536", "537",
  "538", "539", "540", "541", "542", "543", "544", "545", "546", "547", "548", "549", "550",
  "551", "552", "553", "554", "555", "556", "557", "558", "559", "560", "561", "562", "563",
  "564", "565", "566", "567", "568", "569", "570", "571", "572", "573", "574", "575", "576",
  "577", "578", "579", "580", "581", "582", "583", "584", "585" }

(* The symbols pushed for a production: of an empty right-hand side only   *)
(* the actions, which come after EPSILON.                                  *)
Expansion(p) == IF Head(p.rhs) = "EPSILON" THEN Tail(p.rhs) ELSE p.rhs
=============================================================================
