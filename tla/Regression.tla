----------------------------- MODULE Regression -----------------------------
(***************************************************************************)
(* Linear and logistic regression (modules/regress): their aggregates.     *)
(*                                                                         *)
(* One iteration of logistic regression is one call of an aggregate; the   *)
(* rows see the state that the last iteration left.  What a row adds to    *)
(* the gradient, the Hessian and the log-likelihood is <<row, c>>: a       *)
(* function of the row and of the coefficients c, named by the iteration   *)
(* that computed them; 0 are the zeros of the first.                       *)
(***************************************************************************)
EXTENDS SqlValues, TLC

CONSTANTS
  NotFinite,   \* an infinity or a NaN
  MaxWidth,    \* the largest uint16 in the code
  Share        \* weights of models are multiples of 1/Share

-----------------------------------------------------------------------------
\* Linear regression.
LinRegrState == [numRows |-> 0, widthOfX |-> 0, y_sum |-> 0, y_square_sum |-> 0,
                 X_transp_Y |-> << >>, X_transp_X |-> << >>]
initialize(width) ==
  [LinRegrState EXCEPT
    !.widthOfX = width, !.X_transp_Y = [i \in 1..width |-> 0],
    !.X_transp_X = [i \in 1..width |-> [j \in 1..i |-> 0]]]   \* the lower triangle

linregr_transition(state, row) ==
  LET x == row.x
      s == IF state.numRows = 0 THEN initialize(Len(x)) ELSE state
  IN IF \/ NotFinite \in {row.y} \cup {x[i] : i \in DOMAIN x}
        \/ state.numRows = 0 /\ Len(x) > MaxWidth
        \/ Len(x) # s.widthOfX   \* eigen_assert
     THEN Exception
     ELSE [s EXCEPT !.numRows = @ + 1, !.y_sum = @ + row.y,
                    !.y_square_sum = @ + row.y * row.y,
                    !.X_transp_Y = [i \in DOMAIN @ |-> @[i] + x[i] * row.y],
                    !.X_transp_X = [i \in DOMAIN @ |->
                                      [j \in 1..i |-> @[i][j] + x[i] * x[j]]]]

\* Mutant: a first state without rows is taken for one of the same width.
linregr_merge_states_left(left, right) ==
  IF right.numRows = 0 THEN left
  ELSE [left EXCEPT !.numRows = @ + right.numRows, !.y_sum = @ + right.y_sum,
                    !.y_square_sum = @ + right.y_square_sum,
                    !.X_transp_Y = [i \in DOMAIN @ |-> @[i] + right.X_transp_Y[i]],
                    !.X_transp_X = [i \in DOMAIN @ |->
                                      [j \in 1..i |-> @[i][j] + right.X_transp_X[i][j]]]]

linregr_merge_states(left, right) ==
  IF left.numRows = 0 THEN right
  ELSE IF right.numRows = 0 THEN left
  ELSE IF left.widthOfX # right.widthOfX THEN Exception
  ELSE [left EXCEPT !.numRows = @ + right.numRows, !.y_sum = @ + right.y_sum,
                    !.y_square_sum = @ + right.y_square_sum,
                    !.X_transp_Y = [i \in DOMAIN @ |-> @[i] + right.X_transp_Y[i]],
                    !.X_transp_X = [i \in DOMAIN @ |->
                                      [j \in 1..i |-> @[i][j] + right.X_transp_X[i][j]]]]

\* The coefficients and their statistics are computed from the sums.
linregr_final(state) == IF state.numRows = 0 THEN Null ELSE state

-----------------------------------------------------------------------------
(* Logistic regression.  coef is a bag of models with their weights: one   *)
(* model, but for the average of those of the segments under igd.  A model *)
(* is the iteration it starts from and the rows that moved it since.       *)
Only(bag) == CHOOSE e \in BagToSet(bag) : TRUE

Sums == {"gradient", "hessian", "logLikelihood"}
LogRegrIRLSState == [numRows |-> 0, coef |-> EmptyBag, gradient |-> EmptyBag,
                     hessian |-> EmptyBag, logLikelihood |-> EmptyBag]
LogRegrCGState == LogRegrIRLSState @@ [iteration |-> 0, grad |-> EmptyBag]
LogRegrIGDState == [numRows |-> 0, coef |-> EmptyBag, stepsize |-> FALSE,
                    hessian |-> EmptyBag, logLikelihood |-> EmptyBag]

\* Mutant: leaves the sums of the last iteration.
reset_hessian(state) ==
  [f \in DOMAIN state |-> CASE f = "numRows" -> 0 [] f = "stepsize" -> TRUE
                            [] f \in Sums \ {"hessian"} -> EmptyBag [] OTHER -> state[f]]

reset(state) ==
  [f \in DOMAIN state |-> CASE f = "numRows" -> 0 [] f = "stepsize" -> TRUE
                            [] f \in Sums -> EmptyBag [] OTHER -> state[f]]

\* The first row of a segment: zeros, or the previous state.
Begun(state, previous) ==
  IF previous = Null THEN [state EXCEPT !.coef = (<<0>> :> Share)] ELSE reset(previous)

Add(bag, row, model) == bag (+) SetToBag({<<row, model[1]>>})

logregr_cg_step_transition(state, row, previous) ==
  LET s == IF state.numRows = 0 THEN Begun(state, previous) ELSE state
      model == Only(s.coef)
  IN [s EXCEPT !.numRows = @ + 1, !.gradient = Add(@, row, model),
               !.hessian = Add(@, row, model), !.logLikelihood = Add(@, row, model)]
logregr_irls_step_transition(state, row, previous) ==
  logregr_cg_step_transition(state, row, previous)

(* igd moves the coefficients with every row, but for the first iteration, *)
(* whose step size is zero; Hessian and log-likelihood are of the          *)
(* coefficients of the previous state, which get their name here.          *)
logregr_igd_step_transition(state, row, previous, iteration) ==
  LET old == <<iteration - 1>>
      s == IF state.numRows = 0 THEN [Begun(state, previous) EXCEPT !.coef = (old :> Share)]
           ELSE state
  IN [s EXCEPT !.numRows = @ + 1,
               !.coef = IF s.stepsize THEN (Append(Only(@), row) :> Share) ELSE @,
               !.hessian = IF previous = Null THEN @ ELSE Add(@, row, old),
               !.logLikelihood = IF previous = Null THEN @ ELSE Add(@, row, old)]

\* operator+= of the intra-iteration fields.
Joined(left, right) ==
  [f \in DOMAIN left |-> CASE f = "numRows" -> left[f] + right[f]
                           [] f \in Sums -> left[f] (+) right[f]
                           [] OTHER -> left[f]]

\* The average of the models, by rows.
Scaled(coef, numRows, total) == [c \in DOMAIN coef |-> (coef[c] * numRows) \div total]
Average(left, right) ==
  LET total == left.numRows + right.numRows
  IN Scaled(left.coef, left.numRows, total) (+) Scaled(right.coef, right.numRows, total)

logregr_cg_step_merge_states(left, right) ==
  IF left.numRows = 0 THEN right
  ELSE IF right.numRows = 0 THEN left ELSE Joined(left, right)
logregr_irls_step_merge_states(left, right) == logregr_cg_step_merge_states(left, right)
logregr_igd_step_merge_states(left, right) ==
  IF 0 \in {left.numRows, right.numRows} THEN logregr_cg_step_merge_states(left, right)
  ELSE [Joined(left, right) EXCEPT !.coef = Average(left, right)]

(* What a final function may return.  New coefficients may over- or        *)
(* underflow.  cg keeps the gradient for the next direction; irls puts the *)
(* diagonal of the inverse in the place of the gradient (and a number into *)
(* a corner of the Hessian).  igd has no final function.                   *)
logregr_cg_step_final(state, iteration) ==
  IF state.numRows = 0 THEN {Null}
  ELSE {Exception, [state EXCEPT !.coef = (<<iteration>> :> Share), !.grad = state.gradient,
                                 !.iteration = @ + 1]}
logregr_irls_step_final(state, iteration) ==
  IF state.numRows = 0 THEN {Null}
  ELSE {Exception, [state EXCEPT !.coef = (<<iteration>> :> Share),
                                 !.gradient = state.hessian]}
=============================================================================
